---- MODULE Spec2Model ----
(***************************************************************************)
(* Model of the geometric-kernel core of pymadcad: the Mesh container of   *)
(* madcad/mesh.py (buffers shared by reference, check, mergepoints,        *)
(* strippoints, stripgroups, mergeclose, finish, flip, outlines, islands,  *)
(* orient) and the PointSet of hashing.py.                                 *)
(*                                                                         *)
(* Conventions.  Python lists are sequences; point, face and group indices *)
(* keep the 0-based values of the source, so buffer[i] of the source is    *)
(* buffer[i+1] here.  Points are integer triples (coordinates on a grid),  *)
(* so that every geometric predicate the code evaluates is computed        *)
(* exactly.  A call that raises is recorded by the name of the exception.  *)
(***************************************************************************)
EXTENDS Integers, Sequences, FiniteSets, TLC

VARIABLES
    heap,       \* the Python heap: buffer id -> list (lists are shared by reference)
    A,          \* the mesh under test: the buffer ids of its four attributes
    B,          \* a mesh derived from A (flip, orient, transform, group), or NoMesh
    snap,       \* the value of A before the last call
    res,        \* what the last call did: its name, arguments, exception and return value
    nops,       \* number of calls made so far
    pc,         \* Mesh.propagate: position in the function
    reached,    \* Mesh.propagate: the reached list
    stack,      \* Mesh.propagate: the stack list
    start,      \* Mesh.propagate: start[0] of the default find
    acc,        \* Mesh.islands: the faces and tracks lists of its closures
    isl,        \* Mesh.islands: the islands list
    calls,      \* Mesh.propagate: the callbacks invoked so far, in order
    pset,       \* a hashing.PointSet
    pmap,       \* a hashing.PositionMap
    sw          \* triangulation: the outline given, and the locals of sweepline_loops

vars == << heap, A, B, snap, res, nops, pc, reached, stack, start, acc, isl, calls, pset, pmap, sw >>

(***************************************************************************)
(* Bounds of the model.                                                    *)
(***************************************************************************)
\* longest face list of an enumerated input mesh
MaxFaces == 3
\* longest face list of the meshes given to check()
MaxCheckFaces == 1
\* number of calls made on the meshes in Spec
MaxOps == 2
\* largest cellsize given to a PointSet
MaxCell == 2
\* largest absolute coordinate of the points given to a PointSet
MaxCoord == 2

(***************************************************************************)
(* Generic helpers                                                         *)
(***************************************************************************)
None == "None"

Range(s) == { s[i] : i \in 1..Len(s) }

SeqsUpTo(S, n) == UNION { [1..k -> S] : k \in 0..n }

\* list[i] = v of the source with a 0-based i
SetAt(s, i, v) == [s EXCEPT ![i+1] = v]

\* list.pop(i) of the source with a 0-based i
PopAt(s, i) == [k \in 1..(Len(s)-1) |-> IF k <= i THEN s[k] ELSE s[k+1]]

\* max(list, default=d)
MaxDefault(s, d) ==
    IF Len(s) = 0 THEN d
    ELSE CHOOSE x \in Range(s) : \A y \in Range(s) : y <= x

(***************************************************************************)
(* Mesh values: the contents of the four buffers of a Mesh.                *)
(***************************************************************************)
MeshVal(points, faces, tracks, groups) ==
    [points |-> points, faces |-> faces, tracks |-> tracks, groups |-> groups]

\* the three oriented edges of a face, in the order every loop of mesh.py lists them
FaceEdges(f) == << <<f[1], f[2]>>, <<f[2], f[3]>>, <<f[3], f[1]>> >>

\* edgekey(a,b): key of a non-directional edge
edgekey(a, b) == IF a < b THEN <<a, b>> ELSE <<b, a>>

\* the list of oriented edges of the faces, in iteration order (Mesh.edges_oriented)
RECURSIVE edges_oriented(_)
edges_oriented(faces) ==
    IF Len(faces) = 0 THEN << >>
    ELSE FaceEdges(Head(faces)) \o edges_oriented(Tail(faces))

(***************************************************************************)
(* Mesh.check: the first MeshError raised, or "ok"                         *)
(***************************************************************************)
\* the checks of one face, in the order of the source: per point `p >= l`
\* then `p < 0`, and after the three points the repeated-point test
RECURSIVE checkpoints(_, _, _)
checkpoints(face, k, l) ==
    IF k > 3 THEN "ok"
    ELSE IF face[k] >= l THEN "MeshError: some point indices are greater than the number of points"
    ELSE IF face[k] < 0 THEN "MeshError: point indices must be positive"
    ELSE checkpoints(face, k+1, l)

checkface(face, l) ==
    LET r == checkpoints(face, 1, l)
    IN  IF r # "ok" THEN r
        ELSE IF face[1] = face[2] \/ face[2] = face[3] \/ face[3] = face[1]
             THEN "MeshError: some faces use the same point multiple times"
        ELSE "ok"

RECURSIVE checkfaces(_, _, _)
checkfaces(faces, i, l) ==
    IF i > Len(faces) THEN "ok"
    ELSE LET r == checkface(faces[i], l)
         IN  IF r # "ok" THEN r ELSE checkfaces(faces, i+1, l)

check(m) ==
    LET l == Len(m.points)
        r == checkfaces(m.faces, 1, l)
    IN  IF r # "ok" THEN r
        ELSE IF Len(m.faces) # Len(m.tracks)
             THEN "MeshError: tracks list doesn't match faces list length"
        ELSE IF MaxDefault(m.tracks, -1) >= Len(m.groups)
             THEN "MeshError: some face group indices are greater than the number of groups"
        ELSE "ok"

IsMeshError(r) == r # "ok"

\* Container.isvalid: try check(), False on MeshError, True otherwise
isvalid(m) == IF IsMeshError(check(m)) THEN FALSE ELSE TRUE

(***************************************************************************)
(* The heap.  Every attribute of a Mesh is a reference to a list; two      *)
(* meshes built from the same list share it.  A mesh is the record of the  *)
(* ids of its four lists, and Val reads them.                              *)
(***************************************************************************)
\* no value recorded
NoSnap == MeshVal(<< >>, << >>, << >>, << >>)

Handle(p, f, t, g) == [points |-> p, faces |-> f, tracks |-> t, groups |-> g]

Val(h) == MeshVal(heap[h.points], heap[h.faces], heap[h.tracks], heap[h.groups])

\* Mesh.__init__ on four fresh lists: the heap holds them and nothing else
NewHeap(m) == << m.points, m.faces, m.tracks, m.groups >>
FirstMesh == Handle(1, 2, 3, 4)
\* no second mesh yet (list ids start at 1)
NoMesh == Handle(0, 0, 0, 0)

\* the record of a call: the method, the name of self, the other argument,
\* the exception raised or "none", the value returned, and the value of self
\* before the call
ResOn(op, arg, par, raised, ret, before) ==
    [op |-> op, arg |-> arg, par |-> par, raised |-> raised, ret |-> ret,
     before |-> before]
Res(op, arg, raised, ret) == ResOn(op, arg, None, raised, ret, NoSnap)
NoRes == Res("none", None, "none", None)

\* the variables of Mesh.propagate and of the PointSet, before any call
IdleProp ==
    /\ pc = "idle" /\ reached = << >> /\ stack = << >> /\ start = 0
    /\ acc = [faces |-> << >>, tracks |-> << >>] /\ isl = << >> /\ calls = << >>
PropVars == << pc, reached, stack, start, acc, isl, calls >>

(***************************************************************************)
(* Input data.  Points are grid points; groups are opaque.                 *)
(***************************************************************************)
Pts == << <<0,0,0>>, <<2,0,0>>, <<0,2,0>>, <<0,0,2>>, <<2,2,2>> >>
Grps == << "g0", "g1", "g2" >>

Prefix(s, n) == SubSeq(s, 1, n)

\* the unit cube of the specification's scenarios (8 points, 12 outward faces),
\* on the grid with a side of 2 so that its centre is a grid point
CubePts == << <<0,0,0>>, <<2,0,0>>, <<0,2,0>>, <<2,2,0>>,
              <<0,0,2>>, <<2,0,2>>, <<0,2,2>>, <<2,2,2>> >>
CubeFaces == << <<4,6,2>>, <<4,2,0>>, <<1,3,7>>, <<1,7,5>>, <<0,1,5>>, <<0,5,4>>,
                <<6,7,3>>, <<6,3,2>>, <<2,3,1>>, <<2,1,0>>, <<4,5,7>>, <<4,7,6>> >>
\* two disjoint tetrahedra (8 points, 8 outward faces)
TwoTetraPts == << <<0,0,0>>, <<2,0,0>>, <<0,2,0>>, <<0,0,2>>,
                  <<6,6,6>>, <<8,6,6>>, <<6,8,6>>, <<6,6,8>> >>
TwoTetraFaces == << <<0,2,1>>, <<0,1,3>>, <<0,3,2>>, <<1,2,3>>,
                    <<4,6,5>>, <<4,5,7>>, <<4,7,6>>, <<5,6,7>> >>

Zeros(n) == [i \in 1..n |-> 0]
Reversed(f) == << f[1], f[3], f[2] >>

Cube == MeshVal(CubePts, CubeFaces, Zeros(12), << "g0" >>)
InvertedCube ==
    MeshVal(CubePts, [i \in 1..12 |-> Reversed(CubeFaces[i])], Zeros(12), << "g0" >>)
TwoTetra == MeshVal(TwoTetraPts, TwoTetraFaces, Zeros(8), << "g0" >>)
Scenarios == { Cube, InvertedCube, TwoTetra }

\* every triple of indices in lo..hi
Triples(lo, hi) == { <<a, b, c>> : a \in lo..hi, b \in lo..hi, c \in lo..hi }

\* the triples check() accepts with n points
ValidFaces(n) == { f \in Triples(0, n-1) : f[1] # f[2] /\ f[2] # f[3] /\ f[3] # f[1] }

(***************************************************************************)
(* SpecCheck: check() and isvalid() on meshes built from raw buffers       *)
(* without validation (Mesh.__init__ verifies nothing).                    *)
(***************************************************************************)
CheckMeshes ==
    { MeshVal(Prefix(Pts, np), fs, ts, Prefix(Grps, ng)) :
        np \in {0, 3}, ng \in 0..2,
        fs \in SeqsUpTo(Triples(-1, 3), MaxCheckFaces),
        ts \in SeqsUpTo(-1..1, MaxCheckFaces + 1) }

InitCheck ==
    /\ \E m \in CheckMeshes : heap = NewHeap(m)
    /\ A = FirstMesh /\ B = NoMesh /\ snap = NoSnap
    /\ res = NoRes /\ nops = 0
    /\ IdleProp
    /\ pset = None /\ pmap = None /\ sw = None

\* m.check(): raises the MeshError or returns None; the mesh is only read
Check ==
    /\ LET r == check(Val(A))
       IN  res' = Res("check", None, IF IsMeshError(r) THEN r ELSE "none", None)
    /\ UNCHANGED << heap, A, B, snap, nops, PropVars, pset, pmap, sw >>

\* m.isvalid(): never lets the MeshError out
IsValid ==
    /\ res' = Res("isvalid", None, "none", isvalid(Val(A)))
    /\ UNCHANGED << heap, A, B, snap, nops, PropVars, pset, pmap, sw >>

NextCheck == Check \/ IsValid

SpecCheck == InitCheck /\ [][NextCheck]_vars

(***************************************************************************)
(* The data-model invariants of a Mesh, stated on the buffers.             *)
(***************************************************************************)
FaceIndexOutOfRange(m) ==
    \E i \in 1..Len(m.faces) : \E k \in 1..3 :
        m.faces[i][k] < 0 \/ m.faces[i][k] >= Len(m.points)
FaceRepeatsPoint(m) ==
    \E i \in 1..Len(m.faces) :
        LET f == m.faces[i] IN f[1] = f[2] \/ f[2] = f[3] \/ f[3] = f[1]
TracksLengthMismatch(m) == Len(m.tracks) # Len(m.faces)
TrackNotAGroup(m) ==
    \E i \in 1..Len(m.tracks) : m.tracks[i] < 0 \/ m.tracks[i] >= Len(m.groups)
TrackTooLarge(m) ==
    \E i \in 1..Len(m.tracks) : m.tracks[i] >= Len(m.groups)

BreaksDataModel(m) ==
    \/ FaceIndexOutOfRange(m) \/ FaceRepeatsPoint(m)
    \/ TracksLengthMismatch(m) \/ TrackNotAGroup(m)

\* C9: check() raises MeshError if and only if a face index is out of range,
\* a face uses a point twice, len(tracks) # len(faces) or a track is not a
\* valid group index (negative or >= len(groups)); isvalid() returns False
\* exactly in those cases and never raises MeshError.
C9_CheckValidatesAll ==
    /\ res.op = "check" => ((res.raised # "none") <=> BreaksDataModel(Val(A)))
    /\ res.op = "isvalid" =>
            /\ res.raised = "none"
            /\ (res.ret = FALSE) <=> BreaksDataModel(Val(A))

(***************************************************************************)
(* connef and Mesh.propagate / Mesh.islands (the second definition of      *)
(* islands in the class, which replaces the first), one action per step of *)
(* the two nested loops.                                                   *)
(***************************************************************************)
\* connef(faces): dict from oriented edge to face index; a later face
\* overwrites an earlier one on the same key
RECURSIVE connef_from(_, _, _)
connef_from(faces, i, conn) ==
    IF i > Len(faces) THEN conn
    ELSE LET es == { FaceEdges(faces[i])[k] : k \in 1..3 }
         IN  connef_from(faces, i+1,
                [e \in (DOMAIN conn) \cup es |-> IF e \in es THEN i-1 ELSE conn[e]])

connef(faces) == connef_from(faces, 1, << >>)

\* the `for i in range(3): e = f[i],f[i-1]` loop of propagate: the faces it
\* pushes, in order.  f[i-1] with i = 0 is f[2]
PropNeighbors(f, conn, reach) ==
    LET es == << <<f[1], f[3]>>, <<f[2], f[1]>>, <<f[3], f[2]>> >>
        push(k) == IF es[k] \in DOMAIN conn /\ ~reach[conn[es[k]] + 1]
                   THEN << conn[es[k]] >> ELSE << >>
    IN  push(1) \o push(2) \o push(3)

\* the default find(): the lowest index >= start[0] that is not reached, or
\* the last index of the range when all are reached; not bound when the
\* range is empty (the loop variable i is then never assigned)
FindLoop(st, reach) ==
    LET n == Len(reach)
        hits == { i \in st..(n-1) : ~reach[i+1] }
    IN  IF st > n-1 THEN [found |-> FALSE, bound |-> FALSE, i |-> -1]
        ELSE IF hits = {} THEN [found |-> FALSE, bound |-> TRUE, i |-> n-1]
        ELSE [found |-> TRUE, bound |-> TRUE,
              i |-> CHOOSE i \in hits : \A j \in hits : i <= j]

\* islands(): the call enters propagate; reached = [False]*len(faces), stack = []
IslandsCall ==
    /\ pc = "idle"
    /\ pc' = "find"
    /\ reached' = [i \in 1..Len(heap[A.faces]) |-> FALSE]
    /\ stack' = << >> /\ start' = 0
    /\ acc' = [faces |-> << >>, tracks |-> << >>] /\ isl' = << >> /\ calls' = << >>
    /\ UNCHANGED << heap, A, B, snap, res, nops, pset, pmap, sw >>

\* `find(stack, reached)` then `if not stack: break`
Find ==
    /\ pc = "find"
    /\ LET r == FindLoop(start, reached)
       IN  IF ~r.bound
           THEN \* `start[0] = i` reads the unassigned local i
                /\ pc' = "raised"
                /\ res' = Res("islands", None, "UnboundLocalError", None)
                /\ UNCHANGED << stack, start >>
           ELSE /\ start' = r.i
                /\ stack' = IF r.found THEN Append(stack, r.i) ELSE stack
                /\ IF r.found
                   THEN pc' = "drain" /\ UNCHANGED res
                   ELSE pc' = "done" /\ res' = Res("islands", None, "none", isl)
    /\ UNCHANGED << heap, A, B, snap, nops, reached, acc, isl, calls, pset, pmap, sw >>

\* `i = stack.pop()` and `if reached[i]: continue`
DrainSkip ==
    /\ pc = "drain" /\ Len(stack) > 0
    /\ reached[stack[Len(stack)] + 1]
    /\ stack' = SubSeq(stack, 1, Len(stack) - 1)
    /\ UNCHANGED << heap, A, B, snap, res, nops, pc, reached, start, acc, isl, calls, pset, pmap, sw >>

\* `i = stack.pop()`, the face is marked, atface(i, reached) runs and the
\* unreached neighbours are pushed
DrainVisit ==
    /\ pc = "drain" /\ Len(stack) > 0
    /\ ~reached[stack[Len(stack)] + 1]
    /\ LET i == stack[Len(stack)]
           m == Val(A)
           reach2 == SetAt(reached, i, TRUE)
       IN  /\ reached' = reach2
           /\ acc' = [faces |-> Append(acc.faces, m.faces[i+1]),
                      tracks |-> Append(acc.tracks, m.tracks[i+1])]
           /\ calls' = Append(calls, << "atface", i >>)
           /\ stack' = SubSeq(stack, 1, Len(stack) - 1)
                         \o PropNeighbors(m.faces[i+1], connef(m.faces), reach2)
    /\ UNCHANGED << heap, A, B, snap, res, nops, pc, start, isl, pset, pmap, sw >>

\* the stack is drained: atisland(reached) appends
\* Mesh(self.points, faces[:], tracks[:], self.groups) and clears both lists
AtIsland ==
    /\ pc = "drain" /\ Len(stack) = 0
    /\ isl' = Append(isl, [points |-> A.points, faces |-> acc.faces,
                           tracks |-> acc.tracks, groups |-> A.groups])
    /\ acc' = [faces |-> << >>, tracks |-> << >>]
    /\ calls' = Append(calls, << "atisland" >>)
    /\ pc' = "find"
    /\ UNCHANGED << heap, A, B, snap, res, nops, reached, stack, start, pset, pmap, sw >>

NextIslands == IslandsCall \/ Find \/ DrainSkip \/ DrainVisit \/ AtIsland

\* input meshes of islands(): they pass check().  The enumerated ones have
\* their faces on the first four points; propagate compares point indices
\* only for equality, so the first face is (0,1,2) without loss.
TracksOf(n, step) == [i \in 1..n |-> ((i-1) * step) % 3]

FaceLists(n) ==
    { gs \in SeqsUpTo(ValidFaces(4), n) : Len(gs) > 0 => gs[1] = <<0, 1, 2>> }

IslandMeshes ==
    { MeshVal(Pts, fs, TracksOf(Len(fs), step), Grps) :
        step \in 0..1, fs \in FaceLists(MaxFaces) } \cup Scenarios

InitIslands ==
    /\ \E m \in IslandMeshes : heap = NewHeap(m)
    /\ A = FirstMesh /\ B = NoMesh /\ snap = NoSnap
    /\ res = NoRes /\ nops = 0
    /\ IdleProp
    /\ pset = None /\ pmap = None /\ sw = None

SpecIslands == InitIslands /\ [][NextIslands]_vars

(***************************************************************************)
(* Islands: what the call collected.                                       *)
(***************************************************************************)
\* the face indices given to atface, in call order
Visits == SelectSeq(calls, LAMBDA c : c[1] = "atface")

RECURSIVE ConcatFaces(_)
ConcatFaces(meshes) ==
    IF Len(meshes) = 0 THEN << >>
    ELSE Head(meshes).faces \o ConcatFaces(Tail(meshes))

\* every face index is collected exactly once, and the faces of the returned
\* islands, in order, are the faces at the collected indices
PartitionsFaces(islands) ==
    LET faces == heap[A.faces]
    IN  /\ Len(Visits) = Len(faces)
        /\ \A i \in 0..(Len(faces)-1) :
               Cardinality({ k \in 1..Len(Visits) : Visits[k][2] = i }) = 1
        /\ ConcatFaces(islands) = [k \in 1..Len(Visits) |-> faces[Visits[k][2] + 1]]
        /\ \A k \in 1..Len(islands) : Len(islands[k].faces) > 0

IslandsReturned == pc \in {"done", "raised"}

\* C1: for every Mesh passing check(), islands(m) returns islands that
\* partition the faces: every face index is collected into exactly one island.
C1_IslandsPartition ==
    IslandsReturned => (pc = "done" /\ PartitionsFaces(res.ret))

\* C1 restricted to meshes with at least one face: the call returns and the
\* islands partition the faces.
C1_IslandsPartitionNonEmpty ==
    (IslandsReturned /\ Len(heap[A.faces]) > 0)
        => (pc = "done" /\ PartitionsFaces(res.ret))

\* a call on a mesh of several faces returned several islands
C1_SeveralIslands ==
    pc = "done" /\ Len(heap[A.faces]) = 3 /\ Len(res.ret) = 2

(***************************************************************************)
(* Mesh.flip, Mesh.issurface, Mesh.outlines_oriented, Mesh.isenvelope      *)
(***************************************************************************)
\* a variant of flip() that rotates each face instead of reversing it
flipfaces_rotated(faces) == [i \in 1..Len(faces) |-> << faces[i][2], faces[i][3], faces[i][1] >>]

\* the faces list built by flip(): [(f[0],f[2],f[1]) for f in self.faces]
flipfaces(faces) == [i \in 1..Len(faces) |-> Reversed(faces[i])]

\* issurface(): False at the first oriented edge met twice
RECURSIVE issurface_from(_, _, _)
issurface_from(es, k, reach) ==
    IF k > Len(es) THEN TRUE
    ELSE IF es[k] \in reach THEN FALSE
    ELSE issurface_from(es, k+1, reach \cup {es[k]})

issurface(faces) == issurface_from(edges_oriented(faces), 1, {})

\* a variant of the loop of outlines_oriented that stores the edge as the
\* face lists it, not its reverse
RECURSIVE outlines_kept_from(_, _, _)
outlines_kept_from(es, k, edges) ==
    IF k > Len(es) THEN edges
    ELSE IF es[k] \in edges THEN outlines_kept_from(es, k+1, edges \ {es[k]})
    ELSE outlines_kept_from(es, k+1, edges \cup { es[k] })

outlines_kept(faces) == outlines_kept_from(edges_oriented(faces), 1, {})

\* outlines_oriented(): for each oriented edge of each face, in order:
\* `if e in edges: edges.remove(e)` `else: edges.add((e[1], e[0]))`
RECURSIVE outlines_from(_, _, _)
outlines_from(es, k, edges) ==
    IF k > Len(es) THEN edges
    ELSE IF es[k] \in edges THEN outlines_from(es, k+1, edges \ {es[k]})
    ELSE outlines_from(es, k+1, edges \cup { <<es[k][2], es[k][1]>> })

outlines_oriented(faces) == outlines_from(edges_oriented(faces), 1, {})

\* a variant of isenvelope() that answers issurface()
isenvelope_surface(faces) == issurface(faces)

\* isenvelope(): len(self.outlines_oriented()) == 0
isenvelope(faces) == Cardinality(outlines_oriented(faces)) = 0

\* the mesh a name designates in the actions below
MeshOf(x) == IF x = "A" THEN A ELSE B
Names == IF B = NoMesh THEN {"A"} ELSE {"A", "B"}

\* B = A.flip(): Mesh(self.points, <new list>, self.tracks, self.groups)
Flip ==
    /\ B = NoMesh /\ nops < MaxOps
    /\ heap' = Append(heap, flipfaces(heap[A.faces]))
    /\ B' = Handle(A.points, Len(heap) + 1, A.tracks, A.groups)
    /\ snap' = Val(A)
    /\ res' = ResOn("flip", "A", None, "none", None, Val(A))
    /\ nops' = nops + 1
    /\ UNCHANGED << A, PropVars, pset, pmap, sw >>

OutlinesOriented ==
    \E x \in Names :
        /\ res' = Res("outlines_oriented", x, "none",
                      outlines_oriented(heap[MeshOf(x).faces]))
        /\ UNCHANGED << heap, A, B, snap, nops, PropVars, pset, pmap, sw >>

IsSurface ==
    \E x \in Names :
        /\ res' = Res("issurface", x, "none", issurface(heap[MeshOf(x).faces]))
        /\ UNCHANGED << heap, A, B, snap, nops, PropVars, pset, pmap, sw >>

IsEnvelope ==
    \E x \in Names :
        /\ res' = Res("isenvelope", x, "none", isenvelope(heap[MeshOf(x).faces]))
        /\ UNCHANGED << heap, A, B, snap, nops, PropVars, pset, pmap, sw >>

NextOutline == Flip \/ OutlinesOriented \/ IsSurface \/ IsEnvelope

\* input meshes: the meshes passing check() of FaceLists, the scenario
\* meshes, and meshes whose faces may use a point several times (nothing
\* validates the buffers given to Mesh.__init__)
OutlineMeshes ==
    { MeshVal(Pts, fs, TracksOf(Len(fs), 1), Grps) :
        fs \in FaceLists(MaxFaces) \cup SeqsUpTo(Triples(0, 2), 2) } \cup Scenarios

InitOutline ==
    /\ \E m \in OutlineMeshes : heap = NewHeap(m)
    /\ A = FirstMesh /\ B = NoMesh /\ snap = NoSnap
    /\ res = NoRes /\ nops = 0
    /\ IdleProp
    /\ pset = None /\ pmap = None /\ sw = None

SpecOutline == InitOutline /\ [][NextOutline]_vars

(***************************************************************************)
(* Outlines: what the calls returned.                                      *)
(***************************************************************************)
Rev(e) == << e[2], e[1] >>

\* the oriented edges of the faces, as a set
EdgeSet(faces) == Range(edges_oriented(faces))

\* the boundary, stored reversed: (v,u) for each face edge (u,v) whose
\* reverse (v,u) is an edge of no face
BoundaryReversed(faces) ==
    { Rev(e) : e \in { d \in EdgeSet(faces) : Rev(d) \notin EdgeSet(faces) } }

Swap(faces, i, j) ==
    [k \in 1..Len(faces) |->
        IF k = i THEN faces[j] ELSE IF k = j THEN faces[i] ELSE faces[k]]

\* the outline is the same for the other orders of the face list: every
\* order of a list of at most four faces, every exchange of two faces of a
\* longer one
SameInAnyOrder(faces, out) ==
    /\ Len(faces) <= 4 =>
          \A perm \in Permutations(1..Len(faces)) :
              outlines_oriented([k \in 1..Len(faces) |-> faces[perm[k]]]) = out
    /\ \A i \in 1..Len(faces) : \A j \in i..Len(faces) :
              outlines_oriented(Swap(faces, i, j)) = out

ResFaces == heap[MeshOf(res.arg).faces]
ResMesh == Val(MeshOf(res.arg))

\* C5: for a Mesh that passes issurface(), outlines_oriented() returns
\* exactly the boundary of the mesh (one edge, stored reversed, for each face
\* edge whose reverse is an edge of no face, none for the others), whatever
\* the order of the faces.
C5_OutlineIsBoundary ==
    (res.op = "outlines_oriented" /\ issurface(ResFaces))
        => /\ res.ret = BoundaryReversed(ResFaces)
           /\ SameInAnyOrder(ResFaces, res.ret)

\* C5 as amended: the same for a Mesh that passes check() and issurface().
C5_OutlineIsBoundaryOfValid ==
    (res.op = "outlines_oriented" /\ check(ResMesh) = "ok" /\ issurface(ResFaces))
        => /\ res.ret = BoundaryReversed(ResFaces)
           /\ SameInAnyOrder(ResFaces, res.ret)

\* outlines_oriented returned the boundary of a surface of three faces that
\* has both shared and boundary edges
C5_Witness ==
    /\ res.op = "outlines_oriented" /\ check(ResMesh) = "ok" /\ issurface(ResFaces)
    /\ Len(ResFaces) = 3
    /\ Cardinality(res.ret) = 3

\* flip() was called and outlines_oriented() has just returned for the
\* flipped mesh
FlippedOutlineReturned ==
    /\ B # NoMesh /\ res.op = "outlines_oriented" /\ res.arg = "B"

\* both directions of every edge of every face
AllOrientedEdges(faces) == EdgeSet(faces) \cup { Rev(e) : e \in EdgeSet(faces) }

\* both directions of every boundary edge (an edge whose reverse is an edge
\* of no face)
BoundaryBothWays(faces) ==
    BoundaryReversed(faces) \cup { Rev(e) : e \in BoundaryReversed(faces) }

\* C6: for every Mesh m passing check(), outlines_oriented(m) and
\* outlines_oriented(m.flip()) are disjoint and their union is the set of
\* all oriented edges, each appearing in exactly one of the two.
C6_OutlineDuality ==
    (FlippedOutlineReturned /\ check(Val(A)) = "ok")
        => LET oA == outlines_oriented(heap[A.faces])
               oB == res.ret
           IN  /\ oA \cap oB = {}
               /\ oA \cup oB = AllOrientedEdges(heap[A.faces])

\* C6 as amended: for every Mesh m passing check(), outlines_oriented(m) and
\* outlines_oriented(m.flip()) are disjoint and each is the other one
\* reversed; when m also passes issurface() their union is the set of both
\* directions of the boundary edges of m (an edge shared by two faces is in
\* neither outline).
C6_BoundaryDuality ==
    (FlippedOutlineReturned /\ check(Val(A)) = "ok")
        => LET oA == outlines_oriented(heap[A.faces])
               oB == res.ret
           IN  /\ oA \cap oB = {}
               /\ oB = { Rev(e) : e \in oA }
               /\ issurface(heap[A.faces])
                     => oA \cup oB = BoundaryBothWays(heap[A.faces])

\* the outline of the flip of a surface with a shared edge and four boundary
\* edges was computed
C6_Witness ==
    /\ FlippedOutlineReturned /\ check(Val(A)) = "ok" /\ issurface(heap[A.faces])
    /\ Len(heap[A.faces]) = 2
    /\ Cardinality(res.ret) = 4

\* C7: isenvelope(m) is true if and only if outlines_oriented(m) is empty,
\* that is, for a mesh passing check() and issurface(), if and only if the
\* mesh has no boundary edge; it is true for the 12-face unit cube.
C7_EnvelopeIffNoOutline ==
    res.op = "isenvelope"
        => /\ res.ret <=> (outlines_oriented(ResFaces) = {})
           /\ (check(ResMesh) = "ok" /\ issurface(ResFaces))
                 => (res.ret <=> \A e \in EdgeSet(ResFaces) : Rev(e) \in EdgeSet(ResFaces))
           /\ ResMesh = Cube => res.ret = TRUE

\* isenvelope returned True for the unit cube
C7_Witness ==
    res.op = "isenvelope" /\ ResMesh = Cube /\ res.ret = TRUE

(***************************************************************************)
(* hashing.PointSet                                                        *)
(***************************************************************************)
\* ivec3(x) of a real quotient a/b: the conversion to int truncates toward 0
TruncDiv(a, b) == IF a >= 0 THEN a \div b ELSE -((-a) \div b)

\* PointSet.__init__(cellsize): assigns points and dict only; the slot
\* cellsize stays unset.  `given` remembers the argument, which the object
\* does not hold.
PointSet(cellsize) ==
    [points |-> << >>, dict |-> << >>, hascell |-> FALSE, cellsize |-> 0,
     given |-> cellsize]

\* keyfor(pt): tuple(ivec3(pt/self.cellsize)); reading the unset slot raises
keyfor(ps, pt) ==
    IF ~ps.hascell THEN [raised |-> "AttributeError", key |-> << >>]
    ELSE [raised |-> "none",
          key |-> << TruncDiv(pt[1], ps.cellsize), TruncDiv(pt[2], ps.cellsize),
                     TruncDiv(pt[3], ps.cellsize) >>]

\* add(pt): the set after the call, the exception and the value returned
\* (the function has no return statement)
psadd(ps, pt) ==
    LET k == keyfor(ps, pt)
    IN  IF k.raised # "none" THEN [ps |-> ps, raised |-> k.raised, ret |-> None]
        ELSE IF k.key \notin DOMAIN ps.dict
             THEN [ps |-> [ps EXCEPT !.dict = [x \in (DOMAIN ps.dict) \cup {k.key} |->
                                                 IF x = k.key THEN Len(ps.points)
                                                 ELSE ps.dict[x]],
                                     !.points = Append(ps.points, pt)],
                   raised |-> "none", ret |-> None]
        ELSE [ps |-> ps, raised |-> "none", ret |-> None]

\* __getitem__(pt)
psgetitem(ps, pt) ==
    LET k == keyfor(ps, pt)
    IN  IF k.raised # "none" THEN [raised |-> k.raised, ret |-> None]
        ELSE IF k.key \in DOMAIN ps.dict
             THEN [raised |-> "none", ret |-> ps.dict[k.key]]
        ELSE [raised |-> "IndexError", ret |-> None]

GridPoints == { <<x, y, 0>> : x \in (-MaxCoord)..MaxCoord, y \in (-MaxCoord)..MaxCoord }

InitPointSet ==
    /\ \E c \in 1..MaxCell : pset = PointSet(c)
    /\ pmap = None /\ sw = None
    /\ heap = NewHeap(MeshVal(<< >>, << >>, << >>, << >>))
    /\ A = FirstMesh /\ B = NoMesh /\ snap = NoSnap
    /\ res = NoRes /\ nops = 0
    /\ IdleProp

\* s.add(pt)
PsAdd ==
    \E pt \in GridPoints :
        LET r == psadd(pset, pt)
        IN  /\ pset' = r.ps
            /\ res' = Res("add", pt, r.raised, r.ret)
            /\ UNCHANGED << heap, A, B, snap, nops, PropVars, pmap, sw >>

\* s[pt]
PsGetItem ==
    \E pt \in GridPoints :
        LET r == psgetitem(pset, pt)
        IN  /\ res' = Res("getitem", pt, r.raised, r.ret)
            /\ UNCHANGED << heap, A, B, snap, nops, PropVars, pset, pmap, sw >>

\* s.remove(pt), s.discard(pt), pt in s: each starts with self.keyfor(p),
\* and p is not a name of the function
PsRemove ==
    \E pt \in GridPoints :
        /\ res' = Res("remove", pt, "NameError", None)
        /\ UNCHANGED << heap, A, B, snap, nops, PropVars, pset, pmap, sw >>

PsDiscard ==
    \E pt \in GridPoints :
        /\ res' = Res("discard", pt, "NameError", None)
        /\ UNCHANGED << heap, A, B, snap, nops, PropVars, pset, pmap, sw >>

PsContains ==
    \E pt \in GridPoints :
        /\ res' = Res("contains", pt, "NameError", None)
        /\ UNCHANGED << heap, A, B, snap, nops, PropVars, pset, pmap, sw >>

NextPointSet == PsAdd \/ PsGetItem \/ PsRemove \/ PsDiscard \/ PsContains

SpecPointSet == InitPointSet /\ [][NextPointSet]_vars

\* the cell of a point for the cellsize given to the constructor
CellOf(ps, pt) ==
    << TruncDiv(pt[1], ps.given), TruncDiv(pt[2], ps.given), TruncDiv(pt[3], ps.given) >>

\* C8: PointSet.add(p) returns the index of the point stored for p's cell;
\* a point of a cell that already holds a point gets the stored index and is
\* not inserted, so that the buffer holds one point per cell.
C8_AddReturnsCellIndex ==
    res.op = "add"
        => /\ res.raised = "none"
           /\ CellOf(pset, res.arg) \in DOMAIN pset.dict
           /\ res.ret = pset.dict[CellOf(pset, res.arg)]
           /\ Len(pset.points) = Cardinality(DOMAIN pset.dict)

(***************************************************************************)
(* The mutating methods of Mesh.  A call works on the heap through the     *)
(* attributes of self: `self.x = <list>` binds the attribute to a new      *)
(* list, `self.x[i] = v` and `self.x.pop(i)` write the list in place, and  *)
(* every mesh holding that list sees the write.                            *)
(***************************************************************************)
\* the state of a call in progress
Call(hp, h) == [heap |-> hp, h |-> h, raised |-> "none", ret |-> None]
Raise(st, exc) == [st EXCEPT !.raised = exc]
Return(st, v) == [st EXCEPT !.ret = v]
\* self.attr
Load(st, attr) == st.heap[st.h[attr]]
\* in-place write of the list self.attr
Store(st, attr, list) == [st EXCEPT !.heap[st.h[attr]] = list]
\* self.attr = <a list no other object holds>
Assign(st, attr, list) ==
    [st EXCEPT !.heap = Append(@, list), !.h[attr] = Len(st.heap) + 1]
ValOf(st) ==
    MeshVal(Load(st, "points"), Load(st, "faces"), Load(st, "tracks"), Load(st, "groups"))

\* list[i] with a Python index: a negative i counts from the end
PyIdx(i, n) == IF i < 0 THEN i + n ELSE i
InRange(i, n) == -n <= i /\ i < n

\* merges.get(k, k)
Get(merges, k) == IF k \in DOMAIN merges THEN merges[k] ELSE k
\* the empty dict
EmptyDict == << >>

\* Mesh.mergepoints(merges): the while loop from index i on
RECURSIVE mergepoints_from(_, _, _)
mergepoints_from(st, merges, i) ==
    LET faces == Load(st, "faces")
    IN  IF i >= Len(faces) THEN st
        ELSE LET f  == faces[i+1]
                 g  == << Get(merges, f[1]), Get(merges, f[2]), Get(merges, f[3]) >>
                 s1 == Store(st, "faces", SetAt(faces, i, g))
             IN  IF g[1] = g[2] \/ g[2] = g[3] \/ g[3] = g[1]
                 THEN LET s2     == Store(s1, "faces", PopAt(Load(s1, "faces"), i))
                          tracks == Load(s2, "tracks")
                      IN  IF i >= Len(tracks)
                          THEN Raise(s2, "IndexError")
                          ELSE mergepoints_from(Store(s2, "tracks", PopAt(tracks, i)),
                                                merges, i)
                 ELSE mergepoints_from(s1, merges, i + 1)

mergepoints(st, merges) == mergepoints_from(st, merges, 0)

\* striplist(list, used): the for loop from index i on, then list[j:] = []
RECURSIVE striplist_from(_, _, _, _, _)
striplist_from(list, used, i, j, reindex) ==
    IF i >= Len(used) THEN [list |-> SubSeq(list, 1, j), reindex |-> reindex]
    ELSE IF used[i+1]
         THEN striplist_from(SetAt(list, j, list[i+1]), used, i + 1, j + 1,
                             SetAt(reindex, i, j))
         ELSE striplist_from(list, used, i + 1, j, reindex)

striplist(list, used) ==
    striplist_from(list, used, 0, 0, [k \in 1..Len(list) |-> -1])

\* Mesh.strippoints(): used[p] = True for every point of every face, then the
\* points and the faces are copied and the copies are rewritten
strippoints(st) ==
    LET points == Load(st, "points")
        faces  == Load(st, "faces")
        n      == Len(points)
        used   == [k \in 1..n |->
                     \E i \in 1..Len(faces) : \E j \in 1..3 :
                        PyIdx(faces[i][j], n) = k - 1]
        r      == striplist(points, used)
        moved  == [i \in 1..Len(faces) |->
                     << r.reindex[PyIdx(faces[i][1], n) + 1],
                        r.reindex[PyIdx(faces[i][2], n) + 1],
                        r.reindex[PyIdx(faces[i][3], n) + 1] >>]
    IN  IF \E i \in 1..Len(faces) : \E j \in 1..3 : ~InRange(faces[i][j], n)
        THEN Raise(st, "IndexError")
        ELSE Return(Assign(Assign(st, "points", r.list), "faces", moved), r.reindex)

\* Container.stripgroups()
stripgroups(st) ==
    LET groups == Load(st, "groups")
        tracks == Load(st, "tracks")
        n      == Len(groups)
        used   == [k \in 1..n |-> \E i \in 1..Len(tracks) : PyIdx(tracks[i], n) = k - 1]
        r      == striplist(groups, used)
        moved  == [i \in 1..Len(tracks) |-> r.reindex[PyIdx(tracks[i], n) + 1]]
    IN  IF \E i \in 1..Len(tracks) : ~InRange(tracks[i], n)
        THEN Raise(st, "IndexError")
        ELSE Return(Assign(Assign(st, "groups", r.list), "tracks", moved), r.reindex)

\* a float given by a decimal: num * 10^exp; none marks the argument None
Real(num, exp) == [none |-> FALSE, num |-> num, exp |-> exp]
NoLimit == [none |-> TRUE, num |-> 0, exp |-> 0]

Abs(x) == IF x < 0 THEN -x ELSE x

\* Container.maxnum()
maxnum(points) ==
    MaxDefault([k \in 1..(3 * Len(points)) |->
                    Abs(points[((k - 1) \div 3) + 1][((k - 1) % 3) + 1])], 0)

\* Container.precision(): self.maxnum() * NUMPREC * (2**3), with NUMPREC = 1e-13
precision(points) == Real(maxnum(points) * 8, -13)

\* Container.mergeclose: the for loop over the points from index i on
RECURSIVE mergeclose_from(_, _, _, _)
mergeclose_from(points, i, ps, merges) ==
    IF i >= Len(points) THEN [ps |-> ps, merges |-> merges, raised |-> "none"]
    ELSE LET r == psadd(ps, points[i+1])
         IN  IF r.raised # "none"
             THEN [ps |-> r.ps, merges |-> merges, raised |-> r.raised]
             ELSE mergeclose_from(points, i + 1, r.ps,
                     IF r.ret = None \/ r.ret # i
                     THEN [k \in DOMAIN merges \cup {i} |->
                              IF k = i THEN r.ret ELSE merges[k]]
                     ELSE merges)

\* Container.mergeclose(limit, start=0)
mergeclose(st, limit) ==
    LET points == Load(st, "points")
        lim    == IF limit.none THEN precision(points) ELSE limit
        r      == mergeclose_from(points, 0, PointSet(lim), EmptyDict)
        merged == mergepoints(st, r.merges)
    IN  IF r.raised # "none" THEN Raise(st, r.raised)
        ELSE IF merged.raised # "none" THEN merged
        ELSE Return(Assign(merged, "points", r.ps.points), r.merges)

\* Mesh.finish(): mergeclose, strippoints, stripgroups, check; no return value
finish(st) ==
    LET s1 == mergeclose(st, NoLimit)
        s2 == strippoints(s1)
        s3 == stripgroups(s2)
        c  == check(ValOf(s3))
    IN  IF s1.raised # "none" THEN s1
        ELSE IF s2.raised # "none" THEN s2
        ELSE IF s3.raised # "none" THEN s3
        ELSE IF IsMeshError(c) THEN Raise(s3, c)
        ELSE Return(s3, None)

\* a group(g) that would keep the faces of every group
group_all(faces, tracks, k, g) == [faces |-> faces, tracks |-> tracks]

\* Mesh.group(g) with one group index: the faces and tracks of that group
RECURSIVE group_from(_, _, _, _)
group_from(faces, tracks, k, g) ==
    IF k > Len(faces) \/ k > Len(tracks) THEN [faces |-> << >>, tracks |-> << >>]
    ELSE LET rest == group_from(faces, tracks, k + 1, g)
         IN  IF tracks[k] = g
             THEN [faces |-> << faces[k] >> \o rest.faces,
                   tracks |-> << tracks[k] >> \o rest.tracks]
             ELSE rest

\* Container.transform(trans) with a translation: list(map(trans, self.points))
Translated(points, v) ==
    [i \in 1..Len(points) |->
        << points[i][1] + v[1], points[i][2] + v[2], points[i][3] + v[3] >>]

(***************************************************************************)
(* Mesh.orient.  Normals are kept as the cross product and its squared     *)
(* length, and the barycenter as a numerator and a denominator, so that    *)
(* every comparison the code makes on floats is decided exactly; a NaN     *)
(* (normalize of a null vector, 0/0) is a flag, and compares as in Python. *)
(***************************************************************************)
Sub(p, q) == << p[1] - q[1], p[2] - q[2], p[3] - q[3] >>
Dot(p, q) == p[1] * q[1] + p[2] * q[2] + p[3] * q[3]
Cross(p, q) == << p[2] * q[3] - p[3] * q[2],
                  p[3] * q[1] - p[1] * q[3],
                  p[1] * q[2] - p[2] * q[1] >>
Scale(k, p) == << k * p[1], k * p[2], k * p[3] >>
Plus(p, q) == << p[1] + q[1], p[2] + q[2], p[3] + q[3] >>

\* cross(e1, e2) of Mesh.facenormal, before normalize
facecross(points, f) ==
    Cross(Sub(points[f[2]+1], points[f[1]+1]), Sub(points[f[3]+1], points[f[1]+1]))

\* Mesh.facenormals(), each as the cross product (the normal is cross/|cross|)
facenormals(m) == [i \in 1..Len(m.faces) |-> facecross(m.points, m.faces[i])]

IsSquare(n) == \E r \in 0..n : r * r = n
ISqrt(n) == CHOOSE r \in 0..n : r * r = n

\* the meshes whose weights in barycenter() are integers
IntegerAreas(m) ==
    \A i \in 1..Len(m.faces) : IsSquare(Dot(facecross(m.points, m.faces[i]),
                                            facecross(m.points, m.faces[i])))

\* Mesh.barycenter(): acc / (3*tot) as the pair (acc, 3*tot); vec3(0) when
\* there is no face; 0/0 (NaN) when every weight is null
RECURSIVE barycenter_from(_, _, _, _)
barycenter_from(m, k, sum, tot) ==
    IF k > Len(m.faces) THEN [num |-> sum, den |-> 3 * tot]
    ELSE LET f == m.faces[k]
             n == facecross(m.points, f)
             w == ISqrt(Dot(n, n))
             s == Plus(m.points[f[1]+1], Plus(m.points[f[2]+1], m.points[f[3]+1]))
         IN  barycenter_from(m, k + 1, Plus(sum, Scale(w, s)), tot + w)

barycenter(m) ==
    IF Len(m.faces) = 0 THEN [num |-> <<0, 0, 0>>, den |-> 1]
    ELSE barycenter_from(m, 1, <<0, 0, 0>>, 0)

\* dir=None
NoDir == << >>

\* the vector both lambdas of orient() project on: dir, or p-center scaled by
\* the denominator of the center
Toward(c, p) == IF c.dir # NoDir THEN c.dir ELSE Sub(Scale(c.center.den, p), c.center.num)
CenterNaN(c) == c.dir = NoDir /\ c.center.den = 0

\* metric(p, n): the pair (first, second): first is an integer (on a scale
\* common to all points) or NaN, second is num/sqrt(den2) or NaN
metric(c, p, i) ==
    LET n == c.normals[i+1]
        v == Toward(c, p)
    IN  [neginf |-> FALSE,
         nan1   |-> CenterNaN(c),
         first  |-> IF CenterNaN(c) THEN 0
                    ELSE IF c.dir # NoDir THEN Dot(p, c.dir) ELSE Dot(v, v),
         nan2   |-> CenterNaN(c) \/ Dot(n, n) = 0,
         num    |-> IF CenterNaN(c) THEN 0 ELSE Abs(Dot(n, v)),
         den2   |-> Dot(n, n)]

\* an orient(p, n) that is never negative
orientneg_never(c, p, i) == FALSE

\* orient(p, n) < 0
orientneg(c, p, i) ==
    LET n == c.normals[i+1]
    IN  ~CenterNaN(c) /\ Dot(n, n) # 0 /\ Dot(n, Toward(c, p)) < 0

\* best = (-inf, 0)
NegInf == [neginf |-> TRUE, nan1 |-> FALSE, first |-> 0, nan2 |-> FALSE,
           num |-> 0, den2 |-> 1]

\* score > best on Python tuples of floats
ScoreGt(s, b) ==
    IF s.nan1 \/ b.nan1 THEN FALSE
    ELSE IF b.neginf THEN TRUE
    ELSE IF s.first # b.first THEN s.first > b.first
    ELSE IF s.nan2 \/ b.nan2 THEN FALSE
    ELSE s.num * s.num * b.den2 > b.num * b.num * s.den2

\* arrangeface(f, p)
arrangeface_unrotated(f, p) == f

arrangeface(f, p) ==
    IF p = f[2] THEN << f[2], f[3], f[1] >>
    ELSE IF p = f[3] THEN << f[3], f[1], f[2] >>
    ELSE f

\* Asso((edgekey(*e), i) for i,f in enumerate(faces) for e in <the 3 edges>):
\* the list of the (key, value) pairs in insertion order
RECURSIVE AssoPairs(_, _)
AssoPairs(faces, i) ==
    IF i >= Len(faces) THEN << >>
    ELSE LET f == faces[i+1]
         IN  << << edgekey(f[1], f[2]), i >>, << edgekey(f[2], f[3]), i >>,
                << edgekey(f[3], f[1]), i >> >> \o AssoPairs(faces, i + 1)

\* conn[key]: the values associated to key, in insertion order
RECURSIVE AssoGet(_, _)
AssoGet(conn, key) ==
    IF Len(conn) = 0 THEN << >>
    ELSE IF Head(conn)[1] = key THEN << Head(conn)[2] >> \o AssoGet(Tail(conn), key)
    ELSE AssoGet(Tail(conn), key)

\* (f[2], f[1], f[0])
Mirrored(f) == << f[3], f[2], f[1] >>

\* the search of a start point in one face f = faces[i]: `for p in f`
RECURSIVE seed_face(_, _, _, _, _)
seed_face(c, s, i, f, k) ==
    IF k > 3 THEN s
    ELSE LET p     == c.points[f[k]+1]
             score == metric(c, p, i)
         IN  IF ScoreGt(score, s.best)
             THEN seed_face(c,
                     [faces |-> IF orientneg(c, p, i)
                                THEN SetAt(s.faces, i, Mirrored(f)) ELSE s.faces,
                      best |-> score, candidate |-> i],
                     i, f, k + 1)
             ELSE seed_face(c, s, i, f, k + 1)

\* `for i,f in enumerate(faces): if not reached[i]: ...`
RECURSIVE seed_from(_, _, _, _)
seed_from(c, reach, s, i) ==
    IF i >= Len(s.faces) THEN s
    ELSE seed_from(c, reach,
                   IF reach[i+1] THEN s ELSE seed_face(c, s, i, s.faces[i+1], 1),
                   i + 1)

\* the (i, n) of `for i in range(3): ... for n in conn[edgekey(f[i], f[i-1])]`
OrientNeighbours(conn, f) ==
    LET at(j) == LET ns == AssoGet(conn, edgekey(f[j+1], f[IF j = 0 THEN 3 ELSE j]))
                 IN  [k \in 1..Len(ns) |-> << j, ns[k] >>]
    IN  at(0) \o at(1) \o at(2)

\* the two loops over the neighbours of the popped face f, from the k-th on
RECURSIVE orient_visit(_, _, _, _)
orient_visit(s, f, ns, k) ==
    IF k > Len(ns) THEN s
    ELSE LET j  == ns[k][1]
             n  == ns[k][2]
             nf == s.faces[n+1]
         IN  IF s.reached[n+1] THEN orient_visit(s, f, ns, k + 1)
             ELSE orient_visit(
                    [s EXCEPT
                        !.faces = IF arrangeface(nf, f[IF j = 0 THEN 3 ELSE j])[2] = f[j+1]
                                  THEN SetAt(@, n, Mirrored(nf)) ELSE @,
                        !.stack = Append(@, n)],
                    f, ns, k + 1)

\* `while stack:`
RECURSIVE orient_drain(_, _)
orient_drain(c, s) ==
    IF Len(s.stack) = 0 THEN s
    ELSE LET i  == s.stack[Len(s.stack)]
             s1 == [s EXCEPT !.stack = SubSeq(@, 1, Len(@) - 1)]
         IN  IF s1.reached[i+1] THEN orient_drain(c, s1)
             ELSE LET s2 == [s1 EXCEPT !.reached[i+1] = TRUE]
                      f  == s2.faces[i+1]
                  IN  orient_drain(c, orient_visit(s2, f, OrientNeighbours(c.conn, f), 1))

\* `while True:` (candidate None is -1)
RECURSIVE orient_loop(_, _, _)
orient_loop(c, faces, reach) ==
    LET s == seed_from(c, reach, [faces |-> faces, best |-> NegInf, candidate |-> -1], 0)
    IN  IF s.candidate = -1 THEN s.faces
        ELSE LET d == orient_drain(c, [faces |-> s.faces, reached |-> reach,
                                       stack |-> << s.candidate >>])
             IN  orient_loop(c, d.faces, d.reached)

\* Mesh.orient(dir): the faces of the returned mesh
orient(m, dir) ==
    orient_loop([points  |-> m.points,
                 dir     |-> dir,
                 center  |-> IF dir = NoDir THEN barycenter(m)
                             ELSE [num |-> <<0, 0, 0>>, den |-> 1],
                 normals |-> facenormals(m),
                 conn    |-> AssoPairs(m.faces, 0)],
                m.faces, [i \in 1..Len(m.faces) |-> FALSE])

(***************************************************************************)
(* The methods returning a new mesh built on the buffers of self.          *)
(***************************************************************************)
\* the directions given to orient()
Dirs == { <<0, 0, 1>>, <<1, 0, 0>> }
\* the default direction is taken on the meshes whose barycenter is rational
DirsOf(m) == Dirs \cup (IF IntegerAreas(m) THEN { NoDir } ELSE { })

\* B = A.orient(dir): Mesh(self.points, faces, self.tracks, self.groups)
Orient ==
    /\ B = NoMesh /\ nops < MaxOps
    /\ \E dir \in DirsOf(Val(A)) :
        /\ heap' = Append(heap, orient(Val(A), dir))
        /\ res' = ResOn("orient", "A", dir, "none", None, Val(A))
    /\ B' = Handle(A.points, Len(heap) + 1, A.tracks, A.groups)
    /\ snap' = Val(A)
    /\ nops' = nops + 1
    /\ UNCHANGED << A, PropVars, pset, pmap, sw >>

\* the translations given to transform()
Translations == { <<1, 0, 0>> }

\* B = A.transform(v): copy(self) keeps the attributes of self, and points
\* is bound to a new list
Transform ==
    /\ B = NoMesh /\ nops < MaxOps
    /\ \E v \in Translations :
        /\ heap' = Append(heap, Translated(heap[A.points], v))
        /\ res' = ResOn("transform", "A", v, "none", None, Val(A))
    /\ B' = Handle(Len(heap) + 1, A.faces, A.tracks, A.groups)
    /\ snap' = Val(A)
    /\ nops' = nops + 1
    /\ UNCHANGED << A, PropVars, pset, pmap, sw >>

\* B = A.group(g): Mesh(self.points, faces, tracks, self.groups)
Group ==
    /\ B = NoMesh /\ nops < MaxOps
    /\ \E g \in 0..1 :
        LET r == group_from(heap[A.faces], heap[A.tracks], 1, g)
        IN  /\ heap' = heap \o << r.faces, r.tracks >>
            /\ res' = ResOn("group", "A", g, "none", None, Val(A))
    /\ B' = Handle(A.points, Len(heap) + 1, Len(heap) + 2, A.groups)
    /\ snap' = Val(A)
    /\ nops' = nops + 1
    /\ UNCHANGED << A, PropVars, pset, pmap, sw >>

(***************************************************************************)
(* The calls of the mutating methods on A or on B.                         *)
(***************************************************************************)
\* the call op(par) on the mesh named x ended in the call state st
Mutate(x, op, par, st) ==
    /\ nops < MaxOps
    /\ heap' = st.heap
    /\ IF x = "A" THEN A' = st.h /\ B' = B ELSE B' = st.h /\ A' = A
    /\ snap' = Val(A)
    /\ res' = ResOn(op, x, par, st.raised, st.ret, Val(MeshOf(x)))
    /\ nops' = nops + 1
    /\ UNCHANGED << PropVars, pset, pmap, sw >>

\* the limits given to mergeclose()
Limits == { NoLimit, Real(1, 0) }

\* the dicts given to mergepoints(): empty, or one point merged into another
Merges(n) ==
    { EmptyDict }
    \cup { (e[1] :> e[2]) : e \in { x \in (0..(n-1)) \X (0..(n-1)) : x[1] # x[2] } }

Mergeclose ==
    \E x \in Names : \E limit \in Limits :
        Mutate(x, "mergeclose", limit, mergeclose(Call(heap, MeshOf(x)), limit))

Mergepoints ==
    \E x \in Names : \E merges \in Merges(Len(heap[MeshOf(x).points])) :
        Mutate(x, "mergepoints", merges, mergepoints(Call(heap, MeshOf(x)), merges))

Strippoints ==
    \E x \in Names :
        Mutate(x, "strippoints", None, strippoints(Call(heap, MeshOf(x))))

Stripgroups ==
    \E x \in Names :
        Mutate(x, "stripgroups", None, stripgroups(Call(heap, MeshOf(x))))

Finish ==
    \E x \in Names :
        Mutate(x, "finish", None, finish(Call(heap, MeshOf(x))))

Next ==
    \/ Flip \/ Orient \/ Transform \/ Group
    \/ Mergeclose \/ Mergepoints \/ Strippoints \/ Stripgroups \/ Finish

\* longest face list of the meshes of Spec
MaxMeshFaces == 2

\* four points of which the last is at the place of the first
CoincidentPts == << <<0,0,0>>, <<2,0,0>>, <<0,2,0>>, <<0,0,0>> >>

\* input meshes, all passing check(): faces on four points (some of them
\* unused or coincident), two groups (the second unused when step is 0)
SpecMeshes ==
    { MeshVal(P, fs, TracksOf(Len(fs), step), Prefix(Grps, 2)) :
        P \in { Prefix(Pts, 4), CoincidentPts }, step \in 0..1,
        fs \in FaceLists(MaxMeshFaces) }

Init ==
    /\ \E m \in SpecMeshes : heap = NewHeap(m)
    /\ A = FirstMesh /\ B = NoMesh /\ snap = NoSnap
    /\ res = NoRes /\ nops = 0
    /\ IdleProp
    /\ pset = None /\ pmap = None /\ sw = None

Spec == Init /\ [][Next]_vars

(***************************************************************************)
(* SpecOrient: orient() on small meshes and on the scenario meshes with    *)
(* some faces reversed.                                                    *)
(***************************************************************************)
\* number of faces reversed in a scenario mesh
MaxFlipped == 2

\* four coplanar points of which the first three are on a line
CollinearPts == << <<0,0,0>>, <<2,0,0>>, <<4,0,0>>, <<0,2,0>> >>

\* two disjoint squares in parallel planes (8 points, 4 faces)
TwoSquaresPts == << <<0,0,0>>, <<2,0,0>>, <<0,2,0>>, <<2,2,0>>,
                    <<0,0,4>>, <<2,0,4>>, <<0,2,4>>, <<2,2,4>> >>
TwoSquaresFaces == << <<0,1,2>>, <<1,3,2>>, <<4,5,6>>, <<5,7,6>> >>
TwoSquares == MeshVal(TwoSquaresPts, TwoSquaresFaces, Zeros(4), << "g0" >>)

FlippedAt(faces, S) ==
    [i \in 1..Len(faces) |-> IF i \in S THEN Reversed(faces[i]) ELSE faces[i]]

FlippedVariants(m) ==
    { [m EXCEPT !.faces = FlippedAt(m.faces, S)] :
        S \in { T \in SUBSET (1..Len(m.faces)) : Cardinality(T) <= MaxFlipped } }

OrientMeshes ==
    { MeshVal(CollinearPts, fs, Zeros(Len(fs)), << "g0" >>) : fs \in FaceLists(MaxFaces) }
    \cup { MeshVal(Prefix(Pts, 4), fs, Zeros(Len(fs)), << "g0" >>) :
                fs \in FaceLists(MaxFaces - 1) }
    \cup UNION { FlippedVariants(m) : m \in { Cube, TwoTetra, TwoSquares } }
    \cup { InvertedCube }

InitOrient ==
    /\ \E m \in OrientMeshes : heap = NewHeap(m)
    /\ A = FirstMesh /\ B = NoMesh /\ snap = NoSnap
    /\ res = NoRes /\ nops = 0
    /\ IdleProp
    /\ pset = None /\ pmap = None /\ sw = None

NextOrient == Orient

SpecOrient == InitOrient /\ [][NextOrient]_vars

(***************************************************************************)
(* Orientation: the faces of the mesh orient() returned.                   *)
(***************************************************************************)
Directed(f) == { <<f[1], f[2]>>, <<f[2], f[3]>>, <<f[3], f[1]>> }

\* the faces f and g share the unoriented edge {u,v}
Share(f, g, u, v) ==
    /\ <<u, v>> \in Directed(f) \/ <<v, u>> \in Directed(f)
    /\ <<u, v>> \in Directed(g) \/ <<v, u>> \in Directed(g)

\* one of f and g traverses the edge as (u,v) and the other as (v,u)
Opposite(f, g, u, v) ==
    \/ <<u, v>> \in Directed(f) /\ <<v, u>> \in Directed(g)
    \/ <<v, u>> \in Directed(f) /\ <<u, v>> \in Directed(g)

\* every two faces sharing an unoriented edge traverse it in opposite
\* directions (two faces sharing an edge are in the same island)
Consistent(faces) ==
    \A i \in 1..Len(faces) : \A j \in (i+1)..Len(faces) :
        \A u \in Range(faces[i]) : \A v \in Range(faces[i]) :
            (u < v /\ Share(faces[i], faces[j], u, v))
                => Opposite(faces[i], faces[j], u, v)

\* some choice of faces to reverse makes the mesh consistent
Orientable(faces) ==
    \E S \in SUBSET (1..Len(faces)) : Consistent(FlippedAt(faces, S))

SomeArea(m) ==
    \E i \in 1..Len(m.faces) :
        facecross(m.points, m.faces[i]) # <<0, 0, 0>>

OrientReturned == res.op = "orient" /\ B # NoMesh

Called == IF res.arg = "A" THEN A ELSE B

\* C3: mergeclose(limit) is idempotent: the call returns a remap, and a
\* second call with the same limit returns the same remap and leaves the
\* same points and faces.
C3_MergecloseIdempotent ==
    res.op = "mergeclose"
        => LET again == mergeclose(Call(heap, Called), res.par)
           IN  /\ res.raised = "none"
               /\ again.raised = "none"
               /\ again.ret = res.ret
               /\ ValOf(again).points = Val(Called).points
               /\ ValOf(again).faces = Val(Called).faces

Mutators == { "mergeclose", "mergepoints", "strippoints", "stripgroups" }

\* C4: when B was obtained from a valid mesh A by flip, orient, transform or
\* group, a call of mergeclose, mergepoints, strippoints or stripgroups on B
\* leaves the points, faces and tracks of A as they were, and A still passes
\* check().
C4_MutationKeepsTheOther ==
    (/\ B # NoMesh
     /\ res.arg = "B"
     /\ res.op \in Mutators
     /\ check(snap) = "ok")
        => /\ Val(A).points = snap.points
           /\ Val(A).faces = snap.faces
           /\ Val(A).tracks = snap.tracks
           /\ check(Val(A)) = "ok"

\* two points fall in the same cell of the precision grid: the cell size is
\* maxnum * 8e-13, below the grid step, so only equal grid points do
SameCell(p, q) == p = q

Normalized(m) ==
    /\ check(m) = "ok"
    /\ \A i \in 1..Len(m.points) : \A j \in (i+1)..Len(m.points) :
          ~SameCell(m.points[i], m.points[j])
    /\ \A p \in 0..(Len(m.points) - 1) :
          \E i \in 1..Len(m.faces) : p \in Range(m.faces[i])
    /\ \A g \in 0..(Len(m.groups) - 1) :
          \E i \in 1..Len(m.tracks) : m.tracks[i] = g

\* C10: after finish() on a Mesh passing check(), the mesh passes check(), no
\* two points are in the same precision cell, every point is used by a face
\* and every group by a track.
C10_FinishNormalizes ==
    (res.op = "finish" /\ check(res.before) = "ok")
        => Normalized(Val(Called))

(***************************************************************************)
(* Merge-close: what the call leaves.                                      *)
(***************************************************************************)
\* the faces (with their tracks) rewritten through the remap, those that got
\* two equal indices dropped
RECURSIVE Remapped(_, _, _, _)
Remapped(faces, tracks, remap, k) ==
    IF k > Len(faces) THEN [faces |-> << >>, tracks |-> << >>]
    ELSE LET f    == faces[k]
             g    == << Get(remap, f[1]), Get(remap, f[2]), Get(remap, f[3]) >>
             rest == Remapped(faces, tracks, remap, k + 1)
         IN  IF g[1] = g[2] \/ g[2] = g[3] \/ g[3] = g[1] THEN rest
             ELSE [faces |-> << g >> \o rest.faces,
                   tracks |-> << tracks[k] >> \o rest.tracks]

\* C11: after mergeclose(limit) on a Mesh passing check(), the returned dict
\* maps each changed old point index to its index in the new buffer, every
\* face index is valid in the new buffer and designates a point of the cell
\* of the old point, every face that got two equal indices is removed with its
\* track, and no remaining face is degenerate.
C11_MergecloseRemaps ==
    (res.op = "mergeclose" /\ check(res.before) = "ok")
        => /\ res.raised = "none"
           /\ LET old == res.before
                  new == Val(Called)
                  r   == Remapped(old.faces, old.tracks, res.ret, 1)
              IN  /\ \A i \in 0..(Len(old.points) - 1) :
                        /\ Get(res.ret, i) \in 0..(Len(new.points) - 1)
                        /\ SameCell(new.points[Get(res.ret, i) + 1], old.points[i + 1])
                        /\ i \in DOMAIN res.ret => res.ret[i] # i
                  /\ new.faces = r.faces
                  /\ new.tracks = r.tracks
                  /\ Len(new.tracks) = Len(new.faces)
                  /\ \A k \in 1..Len(new.faces) :
                        /\ \A j \in 1..3 : new.faces[k][j] \in 0..(Len(new.points) - 1)
                        /\ Cardinality(Range(new.faces[k])) = 3

(***************************************************************************)
(* hashing.PositionMap.  Coordinates and the cellsize are integers (a      *)
(* common unit of length), so that the float operations of keysfor are     *)
(* exact; the floats that are not numbers are kept apart: a float is a     *)
(* number, an infinity or NaN.                                             *)
(***************************************************************************)
\* largest absolute coordinate of a point given to a PositionMap
MaxSeg == 5

\* the int a conversion of NaN or of an infinity can give
IntMax == 2147483647
IntMin == -IntMax - 1

Fin(x) == [cls |-> "fin", v |-> x]
Infinite(s) == [cls |-> "inf", v |-> s]
NaN == [cls |-> "nan", v |-> 0]

\* x < y on floats
FLt(x, y) ==
    IF x.cls = "nan" \/ y.cls = "nan" THEN FALSE
    ELSE IF x.cls = "fin" /\ y.cls = "fin" THEN x.v < y.v
    ELSE IF x.cls = "fin" THEN y.v > 0
    ELSE IF y.cls = "fin" THEN x.v < 0
    ELSE x.v < y.v

\* k * x with k a number
FScale(k, x) ==
    IF x.cls = "fin" THEN Fin(k * x.v)
    ELSE IF x.cls = "nan" \/ k = 0 THEN NaN
    ELSE Infinite(IF (k > 0) = (x.v > 0) THEN 1 ELSE -1)

\* int(x) of the C++ cast in ivec3(...) for a float that is not a number:
\* undefined behaviour, the two outcomes of the usual builds
Casts == { "indefinite", "saturate" }
CastOf(x, cast) ==
    IF cast = "indefinite" THEN IntMin
    ELSE IF x.cls = "nan" THEN 0
    ELSE IF x.v > 0 THEN IntMax ELSE IntMin

\* tuple(ivec3(p/cell)): the cast truncates toward zero
ivec3div(p, cell) == << TruncDiv(p[1], cell), TruncDiv(p[2], cell), TruncDiv(p[3], cell) >>

\* PositionMap.__init__(cellsize); cast is the conversion of the build
PositionMap(cellsize, cast) == [cellsize |-> cellsize, dict |-> << >>, cast |-> cast]

Sign(x) == IF x > 0 THEN 1 ELSE IF x < 0 THEN -1 ELSE 0

\* the segments whose direction normalize() gives exactly
AxisParallel(a, b) == Cardinality({ j \in 1..3 : a[j] # b[j] }) = 1

\* normalize(space[1]-space[0]) of a segment parallel to an axis
unitdir(a, b) == << Sign(b[1] - a[1]), Sign(b[2] - a[2]), Sign(b[3] - a[3]) >>

\* glm.abs((cell - p%cell)/v), one component: cell - p%cell is positive, and
\* a division by zero gives an infinity
proxof(cell, pj, vj) == IF vj = 0 THEN Infinite(1) ELSE Fin(cell - (pj % cell))

\* keysfor of a segment: the while loop, from the position p
RECURSIVE segment_from(_, _, _, _, _)
segment_from(cell, cast, b, v, p) ==
    IF Dot(Sub(b, p), v) < 0 THEN << >>
    ELSE LET prox == [j \in 1..3 |-> proxof(cell, p[j], v[j])]
             i1   == IF FLt(prox[2], prox[1]) THEN 2 ELSE 1
             i    == IF FLt(prox[2], prox[i1]) THEN 3 ELSE i1
             a    == [j \in 1..3 |-> FScale(v[j], prox[i])]
         IN  IF prox[i].cls = "fin"
             THEN << ivec3div(<< 2 * p[1] + a[1].v, 2 * p[2] + a[2].v, 2 * p[3] + a[3].v >>,
                              2 * cell) >>
                  \o segment_from(cell, cast, b, v,
                                  << p[1] + a[1].v, p[2] + a[2].v, p[3] + a[3].v >>)
             \* a has two NaN components: the key is the cast of floats that
             \* are not numbers, p += a is NaN, dot(space[1]-p, v) is NaN and
             \* the loop ends
             ELSE << << CastOf(a[1], cast), CastOf(a[2], cast), CastOf(a[3], cast) >> >>

\* keysfor of a segment (a,b); normalize of the null vector is NaN, and the
\* loop is not entered
segmentkeys(cell, cast, a, b) ==
    << ivec3div(a, cell) >>
    \o (IF a = b THEN << >> ELSE segment_from(cell, cast, b, unitdir(a, b), a))

(***************************************************************************)
(* keysfor of a triangle.  The candidates of the y and z selections are    *)
(* rationals, kept as a numerator and a positive denominator.              *)
(***************************************************************************)
Q(n, d) == IF d < 0 THEN [n |-> -n, d |-> -d] ELSE [n |-> n, d |-> d]
QLe(a, b) == a.n * b.d <= b.n * a.d
\* min(cand), max(cand)
QMinOf(S) == CHOOSE a \in S : \A b \in S : QLe(a, b)
QMaxOf(S) == CHOOSE a \in S : \A b \in S : QLe(b, a)
\* floor(a / c) and ceil(a / c) for a positive integer c
QFloorDiv(a, c) == a.n \div (a.d * c)
QCeilDiv(a, c) == -((-a.n) \div (a.d * c))
QMinusInt(a, k) == [n |-> a.n - k * a.d, d |-> a.d]

Max2(a, b) == IF a >= b THEN a ELSE b

RECURSIVE Flatten(_)
Flatten(ss) == IF Len(ss) = 0 THEN << >> ELSE Head(ss) \o Flatten(Tail(ss))

\* the permutation of the coordinates that brings the normal the closer to Z
trianglenormal(T) == Cross(Sub(T[2], T[1]), Sub(T[3], T[1]))
triangleorder(T) ==
    LET n == trianglenormal(T)
    IN  IF Abs(n[2]) >= Abs(n[1]) /\ Abs(n[2]) >= Abs(n[3]) THEN <<2, 0, 1>>
        ELSE IF Abs(n[1]) >= Abs(n[2]) /\ Abs(n[1]) >= Abs(n[3]) THEN <<1, 2, 0>>
        ELSE <<0, 1, 2>>

\* [vec3(p[order[0]], p[order[1]], p[order[2]]) for p in space]
Permuted(T, order) ==
    [i \in 1..3 |-> << T[i][order[1] + 1], T[i][order[2] + 1], T[i][order[3] + 1] >>]

\* space[i-1] of the source for the 1-based i
PrevOf(i) == IF i = 1 THEN 3 ELSE i - 1

\* y selection, the candidates of the edge i for the column [xl, xr]: the y
\* of the line of the edge at xl and at xr (v[i][1]/inf is 0)
edgecand(sp, i, xl, xr) ==
    LET a  == sp[PrevOf(i)]
        b  == sp[i]
        vx == a[1] - b[1]
        vy == a[2] - b[2]
        at(X) == IF vx = 0 THEN Q(b[2], 1) ELSE Q(b[2] * vx + vy * (X - b[1]), vx)
    IN  IF (a[1] - xl) * (b[1] - xr) <= 0 \/ (a[1] - xr) * (b[1] - xl) <= 0
        THEN { at(xl), at(xr) }
        ELSE { }

\* z selection: f(x,y) = o[2] + dx*(x-o[0]) + dy*(y-o[1]), dx = -n[0]/n[2],
\* dy = -n[1]/n[2]
planeat(sp, X, Y) ==
    LET n == Cross(Sub(sp[3], sp[1]), Sub(sp[1], sp[2]))
        o == sp[1]
    IN  Q(o[3] * n[3] - n[1] * (X - o[1]) - n[2] * (Y - o[2]), n[3])

\* the cells (x, y, z indices in the permuted coordinates) of the cell
\* (kx, ky) of the y selection
zcells(sp, cell, kx, ky) ==
    LET cand == { planeat(sp, cell * (kx + i), cell * (ky + j)) : i \in 0..1, j \in 0..1 }
        kz   == QFloorDiv(QMinOf(cand), cell)
        nz   == Max2(1, QCeilDiv(QMinusInt(QMaxOf(cand), cell * kz), cell))
    IN  [i \in 1..nz |-> << kx, ky, kz + i - 1 >>]

\* the cells of the column kx; no candidate makes min() raise ValueError
columncells(sp, cell, kx) ==
    LET cand == UNION { edgecand(sp, i, cell * kx, cell * (kx + 1)) : i \in 1..3 }
        ky   == QFloorDiv(QMinOf(cand), cell)
        ny   == Max2(1, QCeilDiv(QMinusInt(QMaxOf(cand), cell * ky), cell))
    IN  IF cand = { } THEN [raised |-> "ValueError", cells |-> << >>]
        ELSE [raised |-> "none",
              cells  |-> Flatten([i \in 1..ny |-> zcells(sp, cell, kx, ky + i - 1)])]

\* the columns from the k-th on, until one raises
RECURSIVE columns_from(_, _, _, _)
columns_from(sp, cell, kx, n) ==
    IF n = 0 THEN [raised |-> "none", cells |-> << >>]
    ELSE LET c == columncells(sp, cell, kx)
             r == columns_from(sp, cell, kx + 1, n - 1)
         IN  IF c.raised # "none" THEN c
             ELSE [raised |-> r.raised, cells |-> c.cells \o r.cells]

MinOf3(a, b, c) == IF a <= b /\ a <= c THEN a ELSE IF b <= c THEN b ELSE c
MaxOf3(a, b, c) == IF a >= b /\ a >= c THEN a ELSE IF b >= c THEN b ELSE c

\* the last loop: the cells inside the box of the triangle, each yielded as
\* tuple(floor(p[order[i]]/cell) for i in range(3))
RECURSIVE yielded(_, _, _, _)
yielded(cells, lo, hi, order) ==
    IF Len(cells) = 0 THEN << >>
    ELSE LET p == Head(cells)
         IN  (IF \A j \in 1..3 : lo[j] <= p[j] /\ p[j] <= hi[j]
              THEN << << p[order[1] + 1], p[order[2] + 1], p[order[3] + 1] >> >>
              ELSE << >>)
             \o yielded(Tail(cells), lo, hi, order)

\* keysfor of a triangle of non-null area: the keys yielded, and the
\* exception that ends the generator
trianglekeys(cell, T) ==
    LET order == triangleorder(T)
        sp    == Permuted(T, order)
        pmin  == [j \in 1..3 |-> MinOf3(sp[1][j], sp[2][j], sp[3][j])]
        pmax  == [j \in 1..3 |-> MaxOf3(sp[1][j], sp[2][j], sp[3][j])]
        lo    == [j \in 1..3 |-> pmin[j] \div cell]
        hi    == [j \in 1..3 |-> pmax[j] \div cell]
        nx    == Max2(1, -((-(pmax[1] - cell * lo[1])) \div cell))
        r     == columns_from(sp, cell, lo[1], nx)
    IN  \* zpts is a list built before the first yield
        IF r.raised # "none" THEN [raised |-> r.raised, keys |-> << >>]
        ELSE [raised |-> "none", keys |-> yielded(r.cells, lo, hi, order)]

\* a primitive given to keysfor: a vec3, or a tuple of vec3
Vec3(p) == [type |-> "vec3", pts |-> << p >>]
Tuple(ps) == [type |-> "tuple", pts |-> ps]

\* PositionMap.keysfor(space): the keys the generator yields, in order, and
\* the exception that ends it
keysfor_pm(pm, space) ==
    IF space.type = "vec3"
    THEN [raised |-> "none", keys |-> << ivec3div(space.pts[1], pm.cellsize) >>]
    ELSE IF space.type = "tuple" /\ Len(space.pts) = 2
    THEN [raised |-> "none",
          keys |-> segmentkeys(pm.cellsize, pm.cast, space.pts[1], space.pts[2])]
    ELSE IF space.type = "tuple" /\ Len(space.pts) = 3
    THEN trianglekeys(pm.cellsize, space.pts)
    ELSE [raised |-> "TypeError", keys |-> << >>]

\* the for loop of PositionMap.add over the keys from the k-th on
RECURSIVE pmadd_from(_, _, _, _)
pmadd_from(dict, keys, k, obj) ==
    IF k > Len(keys) THEN dict
    ELSE pmadd_from([x \in DOMAIN dict \cup { keys[k] } |->
                        IF x = keys[k]
                        THEN (IF x \in DOMAIN dict THEN Append(dict[x], obj) ELSE << obj >>)
                        ELSE dict[x]],
                    keys, k + 1, obj)

\* PositionMap.add(space, obj)
pmadd(pm, space, obj) ==
    LET r == keysfor_pm(pm, space)
    IN  [pm |-> [pm EXCEPT !.dict = pmadd_from(pm.dict, r.keys, 1, obj)],
         raised |-> r.raised]

\* number of calls on a PositionMap
MaxAdds == 1
\* largest coordinate of the vertices of a triangle
MaxTri == 2

\* the point at x on the axis d, at o on the two other axes
OnAxis(d, x, o) == [j \in 1..3 |-> IF j = d THEN x ELSE o]

RasterPoints == { OnAxis(d, x, o) : d \in 1..3, x \in (-MaxSeg)..MaxSeg, o \in 0..1 }

\* segments parallel to an axis, or reduced to a point
RasterSegments ==
    { << OnAxis(d, x, o), OnAxis(d, y, o) >> :
        d \in 1..3, x \in (-MaxSeg)..MaxSeg, y \in (-MaxSeg)..MaxSeg, o \in 0..1 }

TriPoints == { << x, y, z >> : x \in 0..MaxTri, y \in 0..MaxTri, z \in 0..MaxTri }

\* triangles of non-null area
\* p before q in the lexicographic order
LexLess(p, q) ==
    \/ p[1] < q[1]
    \/ p[1] = q[1] /\ p[2] < q[2]
    \/ p[1] = q[1] /\ p[2] = q[2] /\ p[3] < q[3]

\* triangles of non-null area, in their two orientations, given from their
\* first vertex in the lexicographic order
RasterTriangles ==
    { T \in TriPoints \X TriPoints \X TriPoints :
        /\ LexLess(T[1], T[2]) /\ LexLess(T[1], T[3])
        /\ trianglenormal(T) # <<0, 0, 0>> }

Spaces ==
    { Vec3(p) : p \in RasterPoints }
    \cup { Tuple(s) : s \in RasterSegments }
    \cup { Tuple(T) : T \in RasterTriangles }
    \cup { Tuple(<< <<0, 0, 0>> >>) }

InitRaster ==
    /\ \E c \in 1..MaxCell : \E cast \in Casts : pmap = PositionMap(c, cast)
    /\ pset = None /\ sw = None
    /\ heap = NewHeap(NoSnap)
    /\ A = FirstMesh /\ B = NoMesh /\ snap = NoSnap
    /\ res = NoRes /\ nops = 0
    /\ IdleProp

\* list(m.keysfor(space))
PmKeysFor ==
    /\ nops < MaxAdds
    /\ \E space \in Spaces :
        LET r == keysfor_pm(pmap, space)
        IN  res' = ResOn("keysfor", space, None, r.raised, r.keys, NoSnap)
    /\ nops' = nops + 1
    /\ UNCHANGED << heap, A, B, snap, PropVars, pset, pmap, sw >>

\* m.add(space, obj)
PmAdd ==
    /\ nops < MaxAdds
    /\ \E space \in Spaces :
        LET r == pmadd(pmap, space, "obj")
        IN  /\ pmap' = r.pm
            /\ res' = ResOn("add", space, "obj", r.raised, None, NoSnap)
    /\ nops' = nops + 1
    /\ UNCHANGED << heap, A, B, snap, PropVars, pset, sw >>

NextRaster == PmKeysFor \/ PmAdd

SpecRaster == InitRaster /\ [][NextRaster]_vars

(***************************************************************************)
(* Rasterization: the cells of a primitive.                                *)
(***************************************************************************)
\* floor(p / cellsize) on every axis
FloorCell(p, cell) == << p[1] \div cell, p[2] \div cell, p[3] \div cell >>

IsPoint(space) == space.type = "vec3"
IsSegment(space) == space.type = "tuple" /\ Len(space.pts) = 2
IsTriangle(space) == space.type = "tuple" /\ Len(space.pts) = 3

\* C12: after one add of a point, segment or triangle to an empty map, every
\* cell list contains obj at most once.
C12_NoDuplicatePair ==
    (res.op = "add" /\ nops = 1)
        => \A k \in DOMAIN pmap.dict : Len(pmap.dict[k]) <= 1

\* the cells holding a point of the segment (a,b), a cell holding the points
\* p with floor(p / cell) equal to its key
SegmentCells(a, b, cell) == { FloorCell(p, cell) : p \in
    { << x, y, z >> :
        x \in MinOf3(a[1], b[1], b[1])..MaxOf3(a[1], b[1], b[1]),
        y \in MinOf3(a[2], b[2], b[2])..MaxOf3(a[2], b[2], b[2]),
        z \in MinOf3(a[3], b[3], b[3])..MaxOf3(a[3], b[3], b[3]) } }

\* the cells whose closed box has a point of the segment (a,b)
SegmentTouched(a, b, cell) ==
    LET lo(j) == -((-MinOf3(a[j], b[j], b[j])) \div cell) - 1
        hi(j) == MaxOf3(a[j], b[j], b[j]) \div cell
    IN  { << x, y, z >> : x \in lo(1)..hi(1), y \in lo(2)..hi(2), z \in lo(3)..hi(3) }

\* C14: for a segment (a,b) parallel to one of the three axes, keysfor((a,b))
\* yields the cells the segment passes through and no other: every cell
\* holding a point of the segment is yielded, and every yielded cell has a
\* point of the segment (on its boundary at least).
C14_SegmentCells ==
    (/\ res.op = "keysfor"
     /\ IsSegment(res.arg)
     /\ AxisParallel(res.arg.pts[1], res.arg.pts[2]))
        => /\ res.raised = "none"
           /\ SegmentCells(res.arg.pts[1], res.arg.pts[2], pmap.cellsize) \subseteq Range(res.ret)
           /\ Range(res.ret) \subseteq SegmentTouched(res.arg.pts[1], res.arg.pts[2], pmap.cellsize)

\* C14 for the segments parallel to X or Y with no negative coordinate
C14_SegmentCellsXY ==
    (/\ res.op = "keysfor"
     /\ IsSegment(res.arg)
     /\ AxisParallel(res.arg.pts[1], res.arg.pts[2])
     /\ res.arg.pts[1][3] = res.arg.pts[2][3]
     /\ \A i \in 1..2 : \A j \in 1..3 : res.arg.pts[i][j] >= 0)
        => /\ SegmentCells(res.arg.pts[1], res.arg.pts[2], pmap.cellsize) \subseteq Range(res.ret)
           /\ Range(res.ret) \subseteq SegmentTouched(res.arg.pts[1], res.arg.pts[2], pmap.cellsize)

\* C15: a point p is hashed to the single cell floor(p / cellsize) on every
\* axis, negative coordinates included.
C15_PointCellIsFloor ==
    (res.op = "keysfor" /\ IsPoint(res.arg))
        => res.ret = << FloorCell(res.arg.pts[1], pmap.cellsize) >>

BoxAxes == { <<1, 0, 0>>, <<0, 1, 0>>, <<0, 0, 1>> }

\* the axes that can separate a box from the triangle T
SepAxes(T) ==
    LET f == { Sub(T[2], T[1]), Sub(T[3], T[2]), Sub(T[1], T[3]) }
    IN  BoxAxes \cup { Cross(u, e) : u \in BoxAxes, e \in f }
                \cup { Cross(Sub(T[2], T[1]), Sub(T[3], T[1])) }

\* the vertices of T seen from the centre of the cell k, in half units
FromCentre(k, cell, T) ==
    [i \in 1..3 |-> [j \in 1..3 |-> 2 * T[i][j] - (2 * k[j] + 1) * cell]]

\* the closed cell k and the triangle T have a common point
CellMeets(k, cell, T) ==
    LET v == FromCentre(k, cell, T)
    IN  \A L \in SepAxes(T) :
            LET pr == { Dot(L, v[i]) : i \in 1..3 }
                r  == cell * (Abs(L[1]) + Abs(L[2]) + Abs(L[3]))
            IN  /\ \E x \in pr : x <= r
                /\ \E x \in pr : x >= -r

\* the centre of the cell k is a point of the triangle T
CentreIn(k, cell, T) ==
    LET v == FromCentre(k, cell, T)
        n == Cross(Sub(T[2], T[1]), Sub(T[3], T[1]))
    IN  /\ Dot(n, v[1]) = 0
        /\ Dot(Cross(v[1], v[2]), n) >= 0
        /\ Dot(Cross(v[2], v[3]), n) >= 0
        /\ Dot(Cross(v[3], v[1]), n) >= 0

\* the cells of the bounding box of the points ps
BoxCells(ps, cell) ==
    LET lo(j) == MinOf3(ps[1][j], ps[2][j], ps[Len(ps)][j]) \div cell
        hi(j) == MaxOf3(ps[1][j], ps[2][j], ps[Len(ps)][j]) \div cell
    IN  { << x, y, z >> : x \in lo(1)..hi(1), y \in lo(2)..hi(2), z \in lo(3)..hi(3) }

\* C13: every cell yielded by keysfor(T) intersects the triangle T, and every
\* cell whose centre lies in T is yielded.
C13_TriangleCovers ==
    (res.op = "keysfor" /\ IsTriangle(res.arg))
        => /\ res.raised = "none"
           /\ \A k \in Range(res.ret) : CellMeets(k, pmap.cellsize, res.arg.pts)
           /\ \A k \in BoxCells(res.arg.pts, pmap.cellsize) :
                CentreIn(k, pmap.cellsize, res.arg.pts) => k \in Range(res.ret)

\* C13 for a triangle whose normal is closest to Z (no permutation of the
\* coordinates): the yielded cells intersect the triangle.
C13_MeetsWithoutPermutation ==
    (/\ res.op = "keysfor" /\ IsTriangle(res.arg)
     /\ triangleorder(res.arg.pts) = <<0, 1, 2>>)
        => \A k \in Range(res.ret) : CellMeets(k, pmap.cellsize, res.arg.pts)

C13_CentresWithoutPermutation ==
    (/\ res.op = "keysfor" /\ IsTriangle(res.arg)
     /\ triangleorder(res.arg.pts) = <<0, 1, 2>>)
        => \A k \in BoxCells(res.arg.pts, pmap.cellsize) :
                CentreIn(k, pmap.cellsize, res.arg.pts) => k \in Range(res.ret)

(***************************************************************************)
(* triangulation.  The outlines are polygons of grid points in the plane   *)
(* z = 0 whose first edge is parallel to an axis: the base guessed from    *)
(* the first points is then made of unit vectors of the axes, and the      *)
(* projected coordinates are integers, as are the cross products and the   *)
(* dot products computed on them.  Only the lengths (square roots) of      *)
(* aesthetic() are not exact.                                              *)
(***************************************************************************)
\* Wire(points, indices)
Wire(points, indices) == [points |-> points, indices |-> indices]
\* Wire.__getitem__(i) for an int i
WireAt(w, i) == w.points[w.indices[PyIdx(i, Len(w.indices)) + 1] + 1]
\* Wire.__iter__()
WirePoints(w) == [k \in 1..Len(w.indices) |-> w.points[w.indices[k] + 1]]

\* normalize(v) of a vector parallel to an axis
unit(v) == << Sign(v[1]), Sign(v[2]), Sign(v[3]) >>

\* guessbase, first while loop: the index in pts of the first point p with
\* xl >= thres, 0 when the iterator is exhausted, -1 when xl is 0/0
\* (p and o both at the origin).  With integer coordinates xl is 0 or is
\* more than thres.
RECURSIVE firstfar(_, _)
firstfar(pts, j) ==
    IF j > Len(pts) THEN 0
    ELSE IF pts[j] # pts[1] THEN j
    ELSE IF pts[1] = <<0, 0, 0>> THEN -1
    ELSE firstfar(pts, j + 1)

\* guessbase, second while loop: the first point from the j-th on that is
\* not on the line (o, x); 0 when the iterator is exhausted
RECURSIVE firstoff(_, _, _)
firstoff(pts, j, x) ==
    IF j > Len(pts) THEN 0
    ELSE IF Cross(Sub(pts[j], pts[1]), x) # <<0, 0, 0>> THEN j
    ELSE firstoff(pts, j + 1, x)

\* x - project(x, dir) for a unit dir
noproject(x, dir) == Sub(x, Scale(Dot(x, dir), dir))

\* guessbase(pts, normal).  A normal that is the float prec goes to
\* dirbase(normal), whose dot(align, dir) of a vec3 and a float is a
\* TypeError.
guessbase(pts, normal) ==
    IF normal # None THEN [raised |-> "TypeError"]
    ELSE IF Len(pts) = 0 THEN [raised |-> "ValueError"]
    ELSE LET j == firstfar(pts, 2)
         IN  IF j = -1 THEN [raised |-> "ZeroDivisionError"]
             ELSE IF j = 0 THEN [raised |-> "ValueError"]
             ELSE LET x == unit(Sub(pts[j], pts[1]))
                      k == firstoff(pts, j + 1, x)
                  IN  IF k = 0 THEN [raised |-> "ValueError"]
                      ELSE LET y == unit(noproject(Sub(pts[k], pts[1]), x))
                           IN  [raised |-> "none", x |-> x, y |-> y, z |-> Cross(x, y)]

\* min(range(n), key=lambda i: dot(pts[i], x)): the first index of the minimum
leftmost(w, x) ==
    CHOOSE i \in 0..(Len(w.indices) - 1) :
        \A j \in 0..(Len(w.indices) - 1) :
            /\ Dot(WireAt(w, i), x) <= Dot(WireAt(w, j), x)
            /\ (j < i => Dot(WireAt(w, i), x) < Dot(WireAt(w, j), x))

\* planeproject(pts, normal): the points of the wire as vec2
planeproject(w, normal) ==
    LET b == guessbase(WirePoints(w), normal)
    IN  IF b.raised # "none" THEN [raised |-> b.raised, proj |-> << >>]
        ELSE LET i == leftmost(w, b.x)
                 l == Len(w.indices)
                 turn == Dot(b.z, Cross(Sub(WireAt(w, (i + 1) % l), WireAt(w, i)),
                                        Sub(WireAt(w, (i - 1) % l), WireAt(w, i))))
                 y == IF turn < 0 THEN Scale(-1, b.y) ELSE b.y
             IN  [raised |-> "none",
                  proj |-> [k \in 1..l |-> << Dot(WirePoints(w)[k], b.x),
                                               Dot(WirePoints(w)[k], y) >>]]

Sub2(p, q) == << p[1] - q[1], p[2] - q[2] >>
Dot2(p, q) == p[1] * q[1] + p[2] * q[2]
perpdot(a, b) == -a[2] * b[1] + a[1] * b[2]

\* the lengths are known to 1/SqrtScale
SqrtScale == 1000

RECURSIVE sqrt_between(_, _, _)
sqrt_between(n, lo, hi) ==
    IF lo = hi THEN lo
    ELSE LET mid == (lo + hi + 1) \div 2
         IN  IF mid * mid <= n THEN sqrt_between(n, mid, hi)
             ELSE sqrt_between(n, lo, mid - 1)

\* floor(SqrtScale * length(v))
length2(v) == sqrt_between(Dot2(v, v) * SqrtScale * SqrtScale, 0, Dot2(v, v) * SqrtScale)

\* a score: -inf, or perpdot / perimeter**2 with SqrtScale times the
\* perimeter in [per, per+3)
NegInfScore == [cls |-> "neginf", c |-> 0, per |-> 1]

\* aesthetic(u, v)
aesthetic(u, v) ==
    [cls |-> "fin", c |-> perpdot(u, v),
     per |-> length2(u) + length2(v) + length2(Sub2(u, v))]

\* uc,vc = inverse(dmat2(u,v)) * p and the test 0 <= uc and 0 <= vc and
\* uc+vc <= 1, with the determinant cleared
intriangle(u, v, p) ==
    LET det == perpdot(u, v)
        sg  == Sign(det)
        uc  == sg * perpdot(p, v)
        vc  == sg * perpdot(u, p)
    IN  0 <= uc /\ 0 <= vc /\ uc + vc <= sg * det

\* score(i) of triangulation_outline.  inverse() of a singular matrix is
\* made of infinities and NaN, and no point passes the test.
score(proj, i) ==
    LET l  == Len(proj)
        o  == proj[i + 1]
        u  == Sub2(proj[((i + 1) % l) + 1], o)
        v  == Sub2(proj[((i - 1) % l) + 1], o)
        sc == aesthetic(u, v)
        triangle == { (i - 1) % l, i, (i + 1) % l }
    IN  IF sc.c < 0 THEN sc
        ELSE IF sc.c = 0 THEN sc
        ELSE IF \E j \in (0..(l - 1)) \ triangle : intriangle(u, v, Sub2(proj[j + 1], o))
             THEN NegInfScore
             ELSE sc

\* a > b whatever the rounding of the lengths
ScoreAbove(a, b) ==
    IF a.cls = "neginf" THEN FALSE
    ELSE IF b.cls = "neginf" THEN TRUE
    ELSE LET lowden == IF a.c >= 0 THEN (a.per + 3) * (a.per + 3) ELSE a.per * a.per
             upden  == IF b.c >= 0 THEN b.per * b.per ELSE (b.per + 3) * (b.per + 3)
         IN  a.c * upden > b.c * lowden

\* scores[i] < -NUMPREC
feasible(sc) == sc.cls = "fin" /\ sc.c >= 0

\* max(range(l), key=lambda i: scores[i]): the indices no other index is
\* above; scores equal in exact arithmetic are ordered by the rounding of
\* their square roots
bestears(scores) ==
    { i \in 0..(Len(scores) - 1) :
        \A j \in 0..(Len(scores) - 1) : ~ScoreAbove(scores[j + 1], scores[i + 1]) }

\* a triangle (hole[i], hole[i+1], hole[i+2]), not the one of the ear
earface_shifted(hole, i) ==
    << hole[(i % Len(hole)) + 1], hole[((i + 1) % Len(hole)) + 1],
       hole[((i + 2) % Len(hole)) + 1] >>

\* (hole[(i-1)%l], hole[i], hole[(i+1)%l])
earface(hole, i) ==
    << hole[((i - 1) % Len(hole)) + 1], hole[i + 1], hole[((i + 1) % Len(hole)) + 1] >>

\* the while loop of triangulation_outline: the lists of triangles it can
\* end with, and whether the warning was printed
RECURSIVE clip(_, _, _, _, _)
clip(hole, proj, scores, triangles, warned) ==
    IF Len(hole) <= 2 THEN { [faces |-> triangles, warned |-> warned] }
    ELSE UNION {
        LET hole1 == PopAt(hole, i)
            proj1 == PopAt(proj, i)
            l     == Len(hole) - 1
            sc1   == SetAt(PopAt(scores, i), (i - 1) % l, score(proj1, (i - 1) % l))
            sc2   == SetAt(sc1, i % l, score(proj1, i % l))
        IN  clip(hole1, proj1, sc2, Append(triangles, earface(hole, i)),
                 warned \/ ~feasible(scores[i + 1]))
        : i \in bestears(scores) }

\* Mesh(points, faces)
MeshOfFaces(points, faces) == [points |-> points, faces |-> faces]

\* triangulation_outline(outline, normal): the results the call can have
triangulation_outline(outline, normal) ==
    LET pp == planeproject(outline, normal)
    IN  IF pp.raised = "ValueError"
        THEN { [raised |-> "none", by |-> "triangulation_outline", warned |-> FALSE,
                mesh |-> MeshOfFaces(<< >>, << >>)] }
        ELSE IF pp.raised # "none"
        THEN { [raised |-> pp.raised, by |-> "triangulation_outline", warned |-> FALSE,
                mesh |-> MeshOfFaces(<< >>, << >>)] }
        ELSE { [raised |-> "none", by |-> "triangulation_outline", warned |-> r.warned,
                mesh |-> MeshOfFaces(outline.points, r.faces)] :
               r \in clip(outline.indices, pp.proj,
                          [k \in 1..Len(pp.proj) |-> score(pp.proj, k - 1)], << >>, FALSE) }

\* triangulation_skeleton(outline, prec): the mesh is on the points of the
\* outline; its faces are not computed here
triangulation_skeleton(outline, prec) ==
    [raised |-> "none", by |-> "triangulation_skeleton", warned |-> FALSE,
     mesh |-> MeshOfFaces(outline.points, << >>)]

\* triangulation(outline, prec): prec is given as the normal
triangulation(outline, prec) ==
    { IF r.raised = "MeshError" THEN triangulation_skeleton(outline, prec) ELSE r :
      r \in triangulation_outline(outline, prec) }

\* most vertices of an enumerated outline
MaxPoly == 4

GridPts == { <<0, 0>>, <<1, 0>>, <<2, 0>>, <<0, 1>>, <<1, 1>>, <<2, 1>>,
             <<0, 2>>, <<1, 2>>, <<2, 2>> }

\* the lists of n distinct grid points whose first edge is parallel to an axis
RECURSIVE Chains(_)
Chains(n) ==
    IF n <= 2
    THEN { c \in GridPts \X GridPts : (c[1][1] = c[2][1]) # (c[1][2] = c[2][2]) }
    ELSE UNION { { Append(c, p) : p \in GridPts \ Range(c) } : c \in Chains(n - 1) }

\* twice the signed area of the triangle (a, b, c)
Orient2(a, b, c) == perpdot(Sub2(b, a), Sub2(c, a))

\* p is on the closed segment (a, b)
OnSeg(a, b, p) ==
    /\ Orient2(a, b, p) = 0
    /\ Dot2(Sub2(p, a), Sub2(p, b)) <= 0

\* the closed segments (a, b) and (c, d) have a common point
SegMeet(a, b, c, d) ==
    \/ /\ Orient2(a, b, c) * Orient2(a, b, d) < 0
       /\ Orient2(c, d, a) * Orient2(c, d, b) < 0
    \/ OnSeg(a, b, c) \/ OnSeg(a, b, d) \/ OnSeg(c, d, a) \/ OnSeg(c, d, b)

\* twice the signed area of the closed loop P
Area2(P) ==
    LET n == Len(P)
        term(i) == P[i][1] * P[(i % n) + 1][2] - P[(i % n) + 1][1] * P[i][2]
        RECURSIVE sum(_)
        sum(i) == IF i > n THEN 0 ELSE term(i) + sum(i + 1)
    IN  sum(1)

\* the closed loop P is a simple polygon: its area is not null, two
\* consecutive edges have only their common vertex in common and two other
\* edges have no common point
SimpleLoop(P) ==
    LET n == Len(P)
        nxt(i) == (i % n) + 1
    IN  /\ n >= 3
        /\ Area2(P) # 0
        /\ \A i \in 1..n : \A j \in 1..n :
            \/ i = j
            \/ IF nxt(i) = j
               THEN ~OnSeg(P[i], P[j], P[nxt(j)]) /\ ~OnSeg(P[j], P[nxt(j)], P[i])
               ELSE IF nxt(j) = i THEN TRUE
               ELSE ~SegMeet(P[i], P[nxt(i)], P[j], P[nxt(j)])

\* the wire of the closed loop P, in the plane z = 0
WireOf(P) ==
    Wire([k \in 1..Len(P) |-> << P[k][1], P[k][2], 0 >>], [k \in 1..Len(P) |-> k - 1])

LPolygon == << <<0, 0>>, <<2, 0>>, <<2, 1>>, <<1, 1>>, <<1, 2>>, <<0, 2>> >>
\* a loop that crosses itself
BowTie == << <<0, 0>>, <<2, 0>>, <<0, 2>>, <<2, 2>> >>

Outlines ==
    { WireOf(P) : P \in { c \in UNION { Chains(n) : n \in 3..MaxPoly } : SimpleLoop(c) }
                        \cup { LPolygon, BowTie } }

InitTriangulation ==
    /\ sw \in { [outline |-> w] : w \in Outlines }
    /\ pset = None /\ pmap = None
    /\ heap = NewHeap(NoSnap)
    /\ A = FirstMesh /\ B = NoMesh /\ snap = NoSnap
    /\ res = NoRes /\ nops = 0
    /\ IdleProp

\* m = triangulation_outline(outline)
TriangulationOutline ==
    /\ pc = "idle"
    /\ \E r \in triangulation_outline(sw.outline, None) :
        res' = ResOn("triangulation_outline", "outline", None, r.raised, r, NoSnap)
    /\ pc' = "done"
    /\ UNCHANGED << heap, A, B, snap, nops, reached, stack, start, acc, isl, calls,
                    pset, pmap, sw >>

\* m = triangulation(outline)
Triangulation ==
    /\ pc = "idle"
    /\ \E r \in triangulation(sw.outline, "NUMPREC") :
        res' = ResOn("triangulation", "outline", "NUMPREC", r.raised, r, NoSnap)
    /\ pc' = "done"
    /\ UNCHANGED << heap, A, B, snap, nops, reached, stack, start, acc, isl, calls,
                    pset, pmap, sw >>

NextTriangulation == TriangulationOutline \/ Triangulation

SpecTriangulation == InitTriangulation /\ [][NextTriangulation]_vars

(***************************************************************************)
(* Triangulation of an outline.                                            *)
(***************************************************************************)
\* the loop of the outline, in the plane z = 0
LoopOf(w) == [k \in 1..Len(w.indices) |-> << WireAt(w, k - 1)[1], WireAt(w, k - 1)[2] >>]

\* twice the sum of the signed areas of the faces
RECURSIVE FacesArea2(_, _, _)
FacesArea2(points, faces, k) ==
    IF k > Len(faces) THEN 0
    ELSE Orient2(points[faces[k][1] + 1], points[faces[k][2] + 1], points[faces[k][3] + 1])
         + FacesArea2(points, faces, k + 1)

\* the unoriented edges that are in one face only
BoundaryOf(faces) ==
    LET edgesof(f) == { {f[1], f[2]}, {f[2], f[3]}, {f[3], f[1]} }
        all == UNION { edgesof(faces[k]) : k \in 1..Len(faces) }
    IN  { e \in all : Cardinality({ k \in 1..Len(faces) : e \in edgesof(faces[k]) }) = 1 }

\* the unoriented edges of the closed loop of a wire
LoopEdges(w) ==
    { { w.indices[k], w.indices[(k % Len(w.indices)) + 1] } : k \in 1..Len(w.indices) }

\* C16: for a simple planar polygon with n vertices, triangulation_outline
\* returns n-2 faces whose signed areas sum to the signed area of the polygon
\* and whose boundary is the set of the edges of the polygon.
C16_OutlineTriangulated ==
    (res.op = "triangulation_outline" /\ SimpleLoop(LoopOf(sw.outline)))
        => /\ res.raised = "none"
           /\ Len(res.ret.mesh.faces) = Len(sw.outline.indices) - 2
           /\ res.ret.mesh.points = sw.outline.points
           /\ FacesArea2(res.ret.mesh.points, res.ret.mesh.faces, 1) = Area2(LoopOf(sw.outline))
           /\ BoundaryOf(res.ret.mesh.faces) = LoopEdges(sw.outline)

\* the L-polygon is triangulated: 4 triangles of total area 3
C16_LPolygon ==
    /\ res.op = "triangulation_outline"
    /\ sw.outline = WireOf(LPolygon)
    /\ Len(res.ret.mesh.faces) = 4
    /\ FacesArea2(res.ret.mesh.points, res.ret.mesh.faces, 1) = 6
    /\ ~res.ret.warned

\* the ear-clipping of the outline can meet a best score below -NUMPREC
IllFormed(w) == \E r \in triangulation_outline(w, None) : r.warned

\* C17: triangulation(outline) returns the result of the ear-clipping, and
\* when the ear-clipping meets a best score below -NUMPREC the result of
\* triangulation_skeleton(outline).
C17_FallsBackToSkeleton ==
    res.op = "triangulation"
        => /\ res.raised = "none"
           /\ IF IllFormed(sw.outline)
              THEN res.ret.by = "triangulation_skeleton"
              ELSE res.ret \in triangulation_outline(sw.outline, None)

\* the ear-clipping never raises MeshError: a best score below -NUMPREC only
\* prints a warning
C17_OutlineNeverRaises ==
    res.op = "triangulation_outline" => res.raised = "none"

\* the ear-clipping of a loop that crosses itself prints the warning and
\* returns its triangles
C17_WarningOnly ==
    ~(/\ res.op = "triangulation_outline"
      /\ res.raised = "none" /\ res.ret.warned
      /\ res.ret.by = "triangulation_outline")

(***************************************************************************)
(* triangulation.sweepline_loops (the second definition of the module, the *)
(* one in force).  The points are grid points of the plane z = 0 and the   *)
(* two first points of the buffer are on a line parallel to an axis, so    *)
(* that the projected coordinates are integers.                            *)
(***************************************************************************)
\* Web(points, edges): the tracks and the groups by default
Web(points, edges) ==
    [points |-> points, edges |-> edges,
     tracks |-> [k \in 1..Len(edges) |-> 0],
     groups |-> IF edges = << >> THEN << >> ELSE << None >>]

\* no edge (None)
NoEdge == << >>

\* list.insert(i, x)
PyInsert(s, i, x) ==
    LET n == Len(s)
        k == IF i < 0 THEN Max2(i + n, 0) ELSE IF i > n THEN n ELSE i
    IN  SubSeq(s, 1, k) \o << x >> \o SubSeq(s, k + 1, n)

\* pts[e[1]] - pts[e[0]]
edgevec(pts, e) == Sub2(pts[e[2] + 1], pts[e[1] + 1])

\* orthoproj(v) < orthoproj(w): v[1]/length(v) and w[1]/length(w) compared
\* by their signed squares
orthoproj_lt(v, w) ==
    LET dv == IF Dot2(v, v) = 0 THEN 1 ELSE Dot2(v, v)
        dw == IF Dot2(w, w) = 0 THEN 1 ELSE Dot2(w, w)
    IN  Sign(v[2]) * v[2] * v[2] * dw < Sign(w[2]) * w[2] * w[2] * dv

\* abs(orthoproj(v)) > abs(orthoproj(w))
orthoproj_steeper(v, w) ==
    LET dv == IF Dot2(v, v) = 0 THEN 1 ELSE Dot2(v, v)
        dw == IF Dot2(w, w) = 0 THEN 1 ELSE Dot2(w, w)
    IN  v[2] * v[2] * dw > w[2] * w[2] * dv

\* SqrtScale * orthoproj(v), to one unit
orthoproj(v) ==
    IF Dot2(v, v) = 0 THEN 0
    ELSE Sign(v[2]) * sqrt_between((v[2] * v[2] * SqrtScale * SqrtScale) \div Dot2(v, v),
                                   0, SqrtScale)

\* projy(e, x)
projy(pts, e, x) ==
    LET a == pts[e[1] + 1]
        v == edgevec(pts, e)
    IN  IF v[1] = 0 THEN Q(a[2], 1)
        ELSE Q(a[2] * v[1] + v[2] * (x - a[1]), v[1])

\* the key of e is before the key of f in the sort of the edges
keybefore(pts, e, f) ==
    \/ pts[e[1] + 1][1] < pts[f[1] + 1][1]
    \/ /\ pts[e[1] + 1][1] = pts[f[1] + 1][1]
       /\ orthoproj_steeper(edgevec(pts, e), edgevec(pts, f))

\* sorted(edges, key): the sort is stable
RECURSIVE sortedges(_, _, _)
sortedges(pts, edges, done) ==
    IF edges = << >> THEN done
    ELSE LET x == Head(edges)
             k == Cardinality({ i \in 1..Len(done) : ~keybefore(pts, x, done[i]) })
         IN  sortedges(pts, Tail(edges), PyInsert(done, k, x))

\* the inner loop of the removal of the absciss ambiguity, for j from j down
RECURSIVE regroup_from(_, _, _, _, _)
regroup_from(pts, stk, l, n, j) ==
    IF j < 0 \/ pts[stk[j + 1][1] + 1][1] < pts[l + 1][1] THEN stk
    ELSE LET ej == stk[j + 1]
             s1 == IF ej[2] = l THEN SetAt(stk, j, << ej[2], ej[1] >>) ELSE stk
         IN  IF s1[j + 1][1] = l /\ n # j
             THEN regroup_from(pts, PyInsert(PopAt(s1, j), n, s1[j + 1]), l, n - 1, j - 1)
             ELSE regroup_from(pts, s1, l, n, j - 1)

\* the outer loop of the removal of the absciss ambiguity, for i from i down
RECURSIVE regroup(_, _, _)
regroup(pts, stk, i) ==
    IF i < 0 THEN stk
    ELSE regroup(pts, regroup_from(pts, stk, stk[i + 1][1], i - 1, i - 1), i - 1)

\* the locals of sweepline_loops at the first test of `while stack`
sweep_start(lines, normal) ==
    LET b == guessbase(lines.points, normal)
    IN  IF b.raised # "none" THEN [raised |-> b.raised]
        ELSE LET pts == [k \in 1..Len(lines.points) |->
                            << Dot(lines.points[k], b.x), Dot(lines.points[k], b.y) >>]
                 edges == [k \in 1..Len(lines.edges) |->
                            IF pts[lines.edges[k][1] + 1][1] < pts[lines.edges[k][2] + 1][1]
                            THEN << lines.edges[k][2], lines.edges[k][1] >>
                            ELSE lines.edges[k]]
                 stk == regroup(pts, sortedges(pts, edges, << >>), Len(edges) - 1)
             IN  [raised |-> "none", pts |-> pts, stack |-> stk,
                  clusters |-> << >>, loops |-> << >>, finalized |-> << >>,
                  edge |-> NoEdge, coedge |-> NoEdge, e |-> stk[Len(stk)]]

\* the search of the pair edge, for i from i down: m (-1 for None) and e
RECURSIVE pairsearch(_, _, _, _, _, _)
pairsearch(s, edge, i, m, sc, e) ==
    IF i < 0 \/ s.pts[s.stack[i + 1][1] + 1][1] # s.pts[edge[1] + 1][1]
    THEN [m |-> m, e |-> e]
    ELSE LET f == s.stack[i + 1]
             diff == Abs(orthoproj(edgevec(s.pts, f)) - orthoproj(edgevec(s.pts, edge)))
             \* diff > sc, diff and sc being known to one unit
         IN  IF f[1] = edge[1] /\ (m = -1 \/ diff > sc + 1)
             THEN pairsearch(s, edge, i - 1, i, diff, f)
             ELSE pairsearch(s, edge, i - 1, m, sc, f)

\* the head of an iteration: edge = stack.pop() and its pair edge
sweep_pop(s) ==
    LET edge == s.stack[Len(s.stack)]
        s1   == [s EXCEPT !.stack = SubSeq(s.stack, 1, Len(s.stack) - 1)]
        ps   == pairsearch(s1, edge, Len(s1.stack) - 1, -1, -1, s.e)
    IN  IF ps.m # -1
        THEN LET coedge == s1.stack[ps.m + 1]
                 swap == orthoproj_lt(edgevec(s.pts, edge), edgevec(s.pts, coedge))
             IN  [s1 EXCEPT !.stack = PopAt(s1.stack, ps.m), !.e = ps.e,
                            !.edge = IF swap THEN coedge ELSE edge,
                            !.coedge = IF swap THEN edge ELSE coedge]
        ELSE [s1 EXCEPT !.e = ps.e, !.edge = edge, !.coedge = NoEdge]

QPos(a) == a.n > 0
QNeg(a) == a.n < 0

\* the search of the cluster of the edge, from the cluster i on: the locals
\* after it, and found
RECURSIVE sweep_search(_, _)
sweep_search(s, i) ==
    IF i >= Len(s.clusters) THEN [s |-> s, found |-> FALSE]
    ELSE LET l0 == s.clusters[i + 1][1]
             l1 == s.clusters[i + 1][2]
             edge == s.edge
             coedge == s.coedge
             x0 == s.pts[s.e[1] + 1][1]
             x1 == s.pts[s.e[2] + 1][1]
         IN  IF l0[2] = l1[2]
             THEN sweep_search([s EXCEPT !.clusters = PopAt(@, i),
                                         !.loops = PopAt(@, i),
                                         !.finalized = Append(@, Append(s.loops[i + 1], l0[2]))],
                               i)
             ELSE IF edge[1] = l0[2]
             THEN [s |-> [s EXCEPT !.loops[i + 1] = Append(@, l0[2]),
                                   !.clusters[i + 1] = << edge, l1 >>,
                                   !.stack = IF coedge # NoEdge THEN Append(@, coedge) ELSE @],
                   found |-> TRUE]
             ELSE IF edge[1] = l1[2]
             THEN [s |-> [s EXCEPT !.loops[i + 1] = << l1[2] >> \o @,
                                   !.clusters[i + 1] =
                                        << l0, IF coedge # NoEdge THEN coedge ELSE edge >>,
                                   !.stack = IF coedge # NoEdge THEN Append(@, edge) ELSE @],
                   found |-> TRUE]
             ELSE IF /\ coedge # NoEdge /\ l0[1] = l1[1] /\ l0[1] = edge[1]
                     /\ QPos(projy(s.pts, l0, x1))
                     /\ QNeg(projy(s.pts, l1, x1))
             THEN [s |-> [s EXCEPT !.clusters = PyInsert(SetAt(@, i, << l0, coedge >>),
                                                         i, << edge, l1 >>),
                                   !.loops = PyInsert(@, i, << edge[1] >>)],
                   found |-> TRUE]
             ELSE IF /\ coedge # NoEdge
                     /\ QPos(projy(s.pts, l0, x0))
                     /\ QNeg(projy(s.pts, l0, x1))
             THEN [s |-> [s EXCEPT !.clusters = PyInsert(SetAt(@, i, << l0, coedge >>),
                                                         i, << edge, l1 >>),
                                   !.loops = PyInsert(SetAt(@, i, << coedge[1] >> \o s.loops[i + 1]),
                                                      i, << l1[1], edge[1] >>)],
                   found |-> TRUE]
             ELSE sweep_search(s, i + 1)

\* (pts[l0[0]][0], projy(l0, ...)) >= (pts[l1[0]][0], projy(l1, ...))
placebefore(s, c) ==
    LET l0 == c[1]
        l1 == c[2]
        y0 == projy(s.pts, l0, s.pts[s.edge[1] + 1][1])
        y1 == projy(s.pts, l1, s.pts[s.edge[2] + 1][1])
    IN  \/ s.pts[l0[1] + 1][1] > s.pts[l1[1] + 1][1]
        \/ s.pts[l0[1] + 1][1] = s.pts[l1[1] + 1][1] /\ QLe(y1, y0)

\* the place of a new cluster: j after `for j in range(len(clusters))` and
\* its break
newplace(s) ==
    LET n == Len(s.clusters)
        hits == { j \in 0..(n - 1) : placebefore(s, s.clusters[j + 1]) }
    IN  IF n = 0 THEN 0
        ELSE IF hits = {} THEN n - 1
        ELSE CHOOSE j \in hits : \A k \in hits : j <= k

\* the rest of an iteration: the edge continues a cluster, opens a hole or
\* a new cluster, goes back to the stack, or the call fails
sweep_place(s) ==
    LET r == sweep_search(s, 0)
        t == r.s
    IN  IF r.found THEN [raised |-> "none", s |-> t]
        ELSE IF t.coedge # NoEdge /\ t.edge[2] # t.coedge[2]
        THEN [raised |-> "none",
              s |-> [t EXCEPT !.clusters = PyInsert(@, newplace(t), << t.coedge, t.edge >>),
                              !.loops = PyInsert(@, newplace(t), << t.edge[1] >>)]]
        ELSE IF t.pts[t.edge[2] + 1][1] = t.pts[t.edge[1] + 1][1]
        THEN [raised |-> "none",
              s |-> [t EXCEPT !.stack =
                        LET s1 == PyInsert(@, -1, t.edge)
                        IN  IF t.coedge # NoEdge THEN PyInsert(s1, -1, t.coedge) ELSE s1]]
        ELSE [raised |-> "Exception", s |-> t]

\* close clusters' ends, for the clusters from the k-th on
RECURSIVE closeloops(_, _, _)
closeloops(clusters, loops, k) ==
    IF k > Len(clusters) THEN loops
    ELSE LET l0 == clusters[k][1]
             l1 == clusters[k][2]
             lp == Append(loops[k], l0[2])
         IN  closeloops(clusters,
                        [loops EXCEPT ![k] = IF l0[2] # l1[2] THEN << l1[2] >> \o lp ELSE lp],
                        k + 1)

\* the end of sweepline_loops: the list returned
sweep_end(s) == s.finalized \o closeloops(s.clusters, s.loops, 1)

(***************************************************************************)
(* A call of sweepline_loops, one step per half of an iteration of         *)
(* `while stack`: the pop of the edge with the search of its pair edge,    *)
(* then the search of its cluster.  sw holds the Web given and the locals  *)
(* of the call.                                                            *)
(***************************************************************************)
\* the locals before the call
NoLocals ==
    [raised |-> "none", pts |-> << >>, stack |-> << >>, clusters |-> << >>,
     loops |-> << >>, finalized |-> << >>, edge |-> NoEdge, coedge |-> NoEdge,
     e |-> NoEdge]

\* the points of P in the plane z = 0
Points3(P) == [k \in 1..Len(P) |-> << P[k][1], P[k][2], 0 >>]

\* the edges of the closed loop of the n first points of a buffer
LoopEdges0(n) == [k \in 1..n |-> << k - 1, k % n >>]

\* the Web of the closed loop P
LoopWeb(P) == Web(Points3(P), LoopEdges0(Len(P)))

\* the Web of a triangle and of one more edge, between the two last points
LoneEdgeWeb(P) == Web(Points3(P), Append(LoopEdges0(3), << 3, 4 >>))

\* a triangle and a segment parallel to an axis that has no common point
\* with it
TriangleAndEdge(c) ==
    /\ SimpleLoop(SubSeq(c, 1, 3))
    /\ (c[4][1] = c[5][1]) # (c[4][2] = c[5][2])
    /\ \A i \in 1..3 : ~SegMeet(c[i], c[(i % 3) + 1], c[4], c[5])

\* a Web of two edges
OpenWeb == Web(Points3(<< <<0, 0>>, <<1, 0>>, <<1, 1>> >>), << <<0, 1>>, <<1, 2>> >>)

SweepWebs ==
    { LoopWeb(c) : c \in { c \in UNION { Chains(n) : n \in 3..MaxPoly } : SimpleLoop(c) } }
    \cup { LoneEdgeWeb(c) : c \in { c \in Chains(3 + 2) : TriangleAndEdge(c) } }
    \cup { OpenWeb }

InitSweep ==
    /\ sw \in { [lines |-> w, loc |-> NoLocals] : w \in SweepWebs }
    /\ pset = None /\ pmap = None
    /\ heap = NewHeap(NoSnap)
    /\ A = FirstMesh /\ B = NoMesh /\ snap = NoSnap
    /\ res = NoRes /\ nops = 0
    /\ IdleProp

\* loops = sweepline_loops(lines): up to the first test of `while stack`
SwCall ==
    /\ pc = "idle"
    /\ IF Len(sw.lines.edges) < 3
       THEN /\ pc' = "done"
            /\ res' = Res("sweepline_loops", "lines", "none", MeshVal(<< >>, << >>, << >>, << >>))
            /\ sw' = sw
       ELSE LET st == sweep_start(sw.lines, None)
            IN  IF st.raised # "none"
                THEN /\ pc' = "raised"
                     /\ res' = Res("sweepline_loops", "lines", st.raised, << >>)
                     /\ sw' = sw
                ELSE /\ pc' = "loop"
                     /\ res' = res
                     /\ sw' = [sw EXCEPT !.loc = st]
    /\ UNCHANGED << heap, A, B, snap, nops, reached, stack, start, acc, isl, calls,
                    pset, pmap >>

\* `while stack` with a stack that is not empty: edge = stack.pop() and the
\* search of the pair edge
SwPop ==
    /\ pc = "loop"
    /\ sw.loc.stack # << >>
    /\ sw' = [sw EXCEPT !.loc = sweep_pop(sw.loc)]
    /\ pc' = "place"
    /\ UNCHANGED << heap, A, B, snap, res, nops, reached, stack, start, acc, isl, calls,
                    pset, pmap >>

\* the rest of the iteration: the search of the cluster of the edge
SwPlace ==
    /\ pc = "place"
    /\ LET r == sweep_place(sw.loc)
       IN  IF r.raised # "none"
           THEN /\ pc' = "raised"
                /\ res' = Res("sweepline_loops", "lines", r.raised, << >>)
                /\ sw' = [sw EXCEPT !.loc = r.s]
           ELSE /\ pc' = "loop"
                /\ res' = res
                /\ sw' = [sw EXCEPT !.loc = r.s]
    /\ UNCHANGED << heap, A, B, snap, nops, reached, stack, start, acc, isl, calls,
                    pset, pmap >>

\* `while stack` with an empty stack: the clusters are closed and the loops
\* returned
SwClose ==
    /\ pc = "loop"
    /\ sw.loc.stack = << >>
    /\ res' = Res("sweepline_loops", "lines", "none", sweep_end(sw.loc))
    /\ pc' = "done"
    /\ UNCHANGED << heap, A, B, snap, nops, reached, stack, start, acc, isl, calls,
                    pset, pmap, sw >>

NextSweep == SwCall \/ SwPop \/ SwPlace \/ SwClose

SpecSweep == InitSweep /\ [][NextSweep]_vars

\* the call is one thread of control: an iteration of `while stack` that
\* can go on goes on
SpecSweepFair == SpecSweep /\ WF_vars(SwPop) /\ WF_vars(SwPlace) /\ WF_vars(SwClose)

\* C18: sweepline_loops terminates on every finite Web: every call
\* eventually returns its loops or raises an error; an edge that is put
\* back to the stack is not popped and put back for ever.
C18_SweepTerminates == (pc = "loop") ~> (pc \in { "done", "raised" })

\* the restack of a vertical edge that is the only edge left: the stack
\* after the iteration is the stack before it
C18_LastEdgeRestacked ==
    /\ pc = "loop"
    /\ sw.loc.stack = << sw.loc.edge >>
    /\ sw.loc.coedge = NoEdge
    /\ sweep_place(sweep_pop(sw.loc)).s = sw.loc

\* the calls on a closed loop that is a simple polygon return or raise
C18_LoopsTerminate ==
    (pc = "loop" /\ Len(sw.lines.edges) = Len(sw.lines.points))
        ~> (pc \in { "done", "raised" })

(***************************************************************************)
(* Mesh.frontiers and Mesh.groupoutlines.  A dict is the list of its       *)
(* (key, value) couples in insertion order.                                *)
(***************************************************************************)
\* k in d
DictHas(d, k) == \E i \in 1..Len(d) : d[i][1] = k
\* d[k]
DictGet(d, k) == d[CHOOSE i \in 1..Len(d) : d[i][1] = k][2]
\* d[k] = v: a key already in d keeps its place
DictPut(d, k, v) ==
    IF DictHas(d, k) THEN [i \in 1..Len(d) |-> IF d[i][1] = k THEN << k, v >> ELSE d[i]]
    ELSE Append(d, << k, v >>)
\* del d[k]
DictDel(d, k) == PopAt(d, (CHOOSE i \in 1..Len(d) : d[i][1] = k) - 1)
\* list(d.keys()), list(d.values())
DictKeys(d) == [i \in 1..Len(d) |-> d[i][1]]
DictValues(d) == [i \in 1..Len(d) |-> d[i][2]]

\* Web(points, edges, tracks, groups)
WebOf(points, edges, tracks, groups) ==
    [points |-> points, edges |-> edges, tracks |-> tracks, groups |-> groups]

\* the arguments of frontiers(*args): an argument is an int or an iterable;
\* v is the set of the groups it gives
ArgInt(a) == [iter |-> FALSE, v |-> { a }]
ArgIter(S) == [iter |-> TRUE, v |-> S]

\* groups = set(args), after args = args[0] for one iterable argument
frontier_groups(args) ==
    IF Len(args) = 1 /\ args[1].iter THEN args[1].v
    ELSE UNION { args[k].v : k \in 1..Len(args) }

\* frontiers: the body of the loop over the edges of a face of track t
frontier_edge(st, edge, t) ==
    LET e == edgekey(edge[1], edge[2])
    IN  IF DictHas(st.belong, e)
        THEN LET b  == DictGet(st.belong, e)
                 g  == edgekey(b, t)
                 c  == IF DictHas(st.couples, g) THEN st.couples
                       ELSE DictPut(st.couples, g, Len(st.couples))
                 s1 == IF b # t
                       THEN [st EXCEPT !.edges = Append(@, e),
                                       !.tracks = Append(@, DictGet(c, g)),
                                       !.couples = c]
                       ELSE st
             IN  [s1 EXCEPT !.belong = DictDel(@, e)]
        ELSE [st EXCEPT !.belong = DictPut(@, e, t)]

\* frontiers: the loop over the faces, from the face i (0-based)
RECURSIVE frontiers_from(_, _, _, _)
frontiers_from(m, groups, i, st) ==
    IF i >= Len(m.faces) THEN st
    ELSE IF groups # {} /\ m.tracks[i + 1] \notin groups
    THEN frontiers_from(m, groups, i + 1, st)
    ELSE LET es == FaceEdges(m.faces[i + 1])
             t  == m.tracks[i + 1]
         IN  frontiers_from(m, groups, i + 1,
                 frontier_edge(frontier_edge(frontier_edge(st, es[1], t), es[2], t), es[3], t))

\* self.frontiers(*args)
frontiers(m, args) ==
    LET st == frontiers_from(m, frontier_groups(args), 0,
                  [edges |-> << >>, tracks |-> << >>, couples |-> << >>, belong |-> << >>])
    IN  WebOf(m.points, st.edges, st.tracks, DictKeys(st.couples))

\* groupoutlines: the body of the loop over the edges of a face
groupoutline_edge(st, e, track) ==
    IF DictHas(st.tmp, e)
    THEN LET s1 == IF DictGet(st.tmp, e) # track
                   THEN [st EXCEPT !.edges = Append(@, e), !.tracks = Append(@, track)]
                   ELSE st
         IN  [s1 EXCEPT !.tmp = DictDel(@, e)]
    ELSE [st EXCEPT !.tmp = DictPut(@, << e[2], e[1] >>, track)]

\* groupoutlines: the loop over the faces, from the face i (0-based)
RECURSIVE groupoutlines_from(_, _, _)
groupoutlines_from(m, i, st) ==
    IF i >= Len(m.faces) THEN st
    ELSE LET f == m.faces[i + 1]
             t == m.tracks[i + 1]
         IN  groupoutlines_from(m, i + 1,
                 groupoutline_edge(
                     groupoutline_edge(
                         groupoutline_edge(st, << f[2], f[1] >>, t),
                         << f[3], f[2] >>, t),
                     << f[1], f[3] >>, t))

\* self.groupoutlines()
groupoutlines(m) ==
    LET st == groupoutlines_from(m, 0, [edges |-> << >>, tracks |-> << >>, tmp |-> << >>])
    IN  WebOf(m.points, st.edges \o DictKeys(st.tmp), st.tracks \o DictValues(st.tmp),
              m.groups)

\* most faces of an input mesh of frontiers and groupoutlines
MaxFrFaces == 3

\* three faces around the point 0, each of its own group
Fan == MeshVal(Prefix(Pts, 4), << <<0,1,2>>, <<0,2,3>>, <<0,3,1>> >>, << 2, 0, 1 >>, Grps)

\* input meshes: the surfaces (issurface() is True) of at most MaxFrFaces
\* faces on four points, every face of any of three groups
FrontierMeshes ==
    { MeshVal(Prefix(Pts, 4), c[1], c[2], Grps) :
        c \in UNION { { fs } \X [1..Len(fs) -> 0..2] :
                        fs \in { gs \in FaceLists(MaxFrFaces) : issurface(gs) } } }
    \cup { Fan }

\* the arguments given to frontiers: none, one iterable of groups, one group
FrontierArgs ==
    { << >> } \cup { << ArgIter(S) >> : S \in SUBSET (0..2) } \cup { << ArgInt(a) >> : a \in 0..2 }

InitFrontier ==
    /\ \E m \in FrontierMeshes : heap = NewHeap(m)
    /\ A = FirstMesh /\ B = NoMesh /\ snap = NoSnap
    /\ res = NoRes /\ nops = 0
    /\ IdleProp
    /\ pset = None /\ pmap = None /\ sw = None

\* w = A.frontiers(*args)
Frontiers ==
    /\ pc = "idle"
    /\ \E args \in FrontierArgs :
        res' = ResOn("frontiers", "A", args, "none", frontiers(Val(A), args), NoSnap)
    /\ pc' = "done"
    /\ UNCHANGED << heap, A, B, snap, nops, reached, stack, start, acc, isl, calls,
                    pset, pmap, sw >>

\* w = A.groupoutlines()
GroupOutlines ==
    /\ pc = "idle"
    /\ res' = Res("groupoutlines", "A", "none", groupoutlines(Val(A)))
    /\ pc' = "done"
    /\ UNCHANGED << heap, A, B, snap, nops, reached, stack, start, acc, isl, calls,
                    pset, pmap, sw >>

NextFrontier == Frontiers \/ GroupOutlines

SpecFrontier == InitFrontier /\ [][NextFrontier]_vars

\* the unoriented edges of a face
FaceKeys(f) == { edgekey(FaceEdges(f)[k][1], FaceEdges(f)[k][2]) : k \in 1..3 }

\* the couples (unoriented edge, unordered pair of tracks) of the edges that
\* two faces of F (indices from 1) with different tracks share
SharedApart(m, F) ==
    UNION { { << k, edgekey(m.tracks[p[1]], m.tracks[p[2]]) >> :
                k \in FaceKeys(m.faces[p[1]]) \cap FaceKeys(m.faces[p[2]]) } :
            p \in { q \in F \X F : q[1] < q[2] /\ m.tracks[q[1]] # m.tracks[q[2]] } }

\* the couples (edge, group of its track) of a Web
Emitted(w) == { << w.edges[k], w.groups[w.tracks[k] + 1] >> : k \in 1..Len(w.edges) }

\* the Web w is the frontier of the faces F of the mesh m: its edges are the
\* edges that two faces of F with different tracks share, each once, the
\* group of an edge is the unordered pair of these tracks, and two edges
\* have the same track iff they have the same pair
IsFrontier(w, m, F) ==
    /\ Len(w.tracks) = Len(w.edges)
    /\ \A k \in 1..Len(w.edges) : w.tracks[k] \in 0..(Len(w.groups) - 1)
    /\ Emitted(w) = SharedApart(m, F)
    /\ \A j \in 1..Len(w.edges) : \A k \in 1..Len(w.edges) :
         /\ w.edges[j] = w.edges[k] => j = k
         /\ (w.tracks[j] = w.tracks[k]) <=>
                (w.groups[w.tracks[j] + 1] = w.groups[w.tracks[k] + 1])

\* the faces whose track is in S
FacesOf(m, S) == { i \in 1..Len(m.faces) : m.tracks[i] \in S }

\* C19: for a Mesh passing issurface(), frontiers() returns the Web of the
\* edges shared by two faces of different tracks, each once, tracked by the
\* unordered pair of the tracks, and frontiers(S) the same for the faces
\* whose track is in S.
C19_Frontiers ==
    (res.op = "frontiers" /\ issurface(Val(A).faces)) =>
        IsFrontier(res.ret, Val(A),
                   IF res.par = << >> THEN 1..Len(Val(A).faces)
                   ELSE FacesOf(Val(A), frontier_groups(res.par)))

\* the same, frontiers(S) being the frontiers of all faces when S is empty
C19_FrontiersOfGroups ==
    (res.op = "frontiers" /\ issurface(Val(A).faces)) =>
        IsFrontier(res.ret, Val(A),
                   IF frontier_groups(res.par) = {} THEN 1..Len(Val(A).faces)
                   ELSE FacesOf(Val(A), frontier_groups(res.par)))

\* frontiers(S) with two groups of three: one frontier edge of two
C19_SubsetFrontier ==
    /\ res.op = "frontiers"
    /\ Val(A) = Fan
    /\ res.par = << ArgIter({ 0, 1 }) >>
    /\ res.ret.edges = << << 0, 3 >> >>
    /\ res.ret.groups = << << 0, 1 >> >>

\* frontiers() with three groups: three tracks
C19_ThreeCouples ==
    /\ res.op = "frontiers"
    /\ res.par = << >>
    /\ Len(res.ret.groups) = 3

\* frontiers of an empty iterable of groups: the frontiers of all the faces
C19_EmptyGivesAll ==
    /\ res.op = "frontiers"
    /\ res.par = << ArgIter({}) >>
    /\ Len(res.ret.edges) = 3

\* the faces (indices from 1) that have the unoriented edge k
Adjacent(m, k) == { i \in 1..Len(m.faces) : k \in FaceKeys(m.faces[i]) }

\* the tracks of the edges of the Web w on the unoriented edge k, as a
\* list in the order of w
RECURSIVE TracksOn(_, _, _)
TracksOn(w, k, j) ==
    IF j > Len(w.edges) THEN << >>
    ELSE (IF edgekey(w.edges[j][1], w.edges[j][2]) = k THEN << w.tracks[j] >> ELSE << >>)
         \o TracksOn(w, k, j + 1)

\* every unoriented edge of the faces of m
AllKeys(m) == UNION { FaceKeys(m.faces[i]) : i \in 1..Len(m.faces) }

\* C20: groupoutlines() emits, on an edge shared by two faces of different
\* groups, one edge per adjacent group, tracked with that group; on an edge
\* shared by two faces of the same group, nothing; on a boundary edge, one
\* edge tracked with the group of its face.
C20_GroupOutlines ==
    (res.op = "groupoutlines") =>
        \A k \in AllKeys(Val(A)) :
            LET m  == Val(A)
                ts == { m.tracks[i] : i \in Adjacent(m, k) }
                on == TracksOn(res.ret, k, 1)
            IN  IF Cardinality(Adjacent(m, k)) = 1 \/ Cardinality(ts) > 1
                THEN Len(on) = Cardinality(ts) /\ Range(on) = ts
                ELSE on = << >>

\* what groupoutlines() emits on an edge shared by two faces of different
\* groups: one edge, tracked with the group of the second of the two faces
C20_OneEdgeOnFrontier ==
    (res.op = "groupoutlines") =>
        \A k \in AllKeys(Val(A)) :
            LET m == Val(A)
                F == Adjacent(m, k)
            IN  (Cardinality(F) = 2 /\ Cardinality({ m.tracks[i] : i \in F }) = 2)
                    => TracksOn(res.ret, k, 1)
                         = << m.tracks[CHOOSE i \in F : \A j \in F : j <= i] >>

\* the two other cases of C20: nothing on an edge inside a group, one edge
\* of the group of the face on a boundary edge
C20_InsideAndBoundary ==
    (res.op = "groupoutlines") =>
        \A k \in AllKeys(Val(A)) :
            LET m == Val(A)
                F == Adjacent(m, k)
                ts == { m.tracks[i] : i \in F }
            IN  /\ (Cardinality(F) = 2 /\ Cardinality(ts) = 1)
                        => TracksOn(res.ret, k, 1) = << >>
                /\ Cardinality(F) = 1
                        => (\E t \in ts : TracksOn(res.ret, k, 1) = << t >>)

\* groupoutlines() of two faces of two groups with a common edge
C20_TwoGroups ==
    /\ res.op = "groupoutlines"
    /\ Val(A).faces = << << 0, 1, 2 >>, << 1, 0, 3 >> >>
    /\ Val(A).tracks = << 0, 1 >>
    /\ TracksOn(res.ret, << 0, 1 >>, 1) = << 1 >>

(***************************************************************************)
(* SpecMutate: sequences of the mutating methods on a mesh that shares no  *)
(* buffer with another container.                                          *)
(***************************************************************************)
\* mergegroups() that would replace the groups and keep the tracks
mergegroups_kept(st) == Assign(st, "groups", << None >>)

\* Container.mergegroups() with defs and merges left to None
mergegroups(st) ==
    LET s1 == Assign(st, "groups", << None >>)
    IN  Assign(s1, "tracks", [i \in 1..Len(Load(s1, "tracks")) |-> 0])

\* Mesh.__iadd__(other), other a Mesh whose lists are in the heap of the call;
\* the loops over other.faces and other.tracks run on lists self does not hold
iadd(st, other) ==
    LET lp == Len(Load(st, "points"))
        of == st.heap[other.faces]
        s1 == IF st.h.points = other.points
              THEN Store(st, "faces", Load(st, "faces") \o of)
              ELSE LET s == Store(st, "points", Load(st, "points") \o st.heap[other.points])
                   IN  Store(s, "faces", Load(s, "faces")
                            \o [i \in 1..Len(of) |->
                                  << of[i][1] + lp, of[i][2] + lp, of[i][3] + lp >>])
        lt == Len(Load(s1, "groups"))
        ot == s1.heap[other.tracks]
        s2 == IF s1.h.groups = other.groups
              THEN Store(s1, "tracks", Load(s1, "tracks") \o ot)
              ELSE LET s == Store(s1, "groups", Load(s1, "groups") \o s1.heap[other.groups])
                   IN  Store(s, "tracks", Load(s, "tracks")
                            \o [i \in 1..Len(ot) |-> ot[i] + lt])
    IN  Return(s2, "self")

\* repl(pt, track) of Mesh.splitgroups on the locals in sp
repl(sp, frontier, pt, track) ==
    IF frontier[PyIdx(pt, Len(frontier)) + 1]
    THEN LET key == << pt, track >>
         IN  IF DictHas(sp.duplicated, key)
             THEN [sp EXCEPT !.i = DictGet(sp.duplicated, key)]
             ELSE [sp EXCEPT !.i = Len(sp.points),
                             !.duplicated = DictPut(@, key, Len(sp.points)),
                             !.points = Append(@, sp.points[PyIdx(pt, Len(frontier)) + 1]),
                             !.idents = Append(@, track)]
    ELSE [sp EXCEPT !.idents = SetAt(@, PyIdx(pt, Len(frontier)), track), !.i = pt]

\* the list comprehension of Mesh.splitgroups from the k-th couple of
\* zip(self.faces, self.tracks) on
RECURSIVE splitgroups_from(_, _, _, _, _)
splitgroups_from(faces, tracks, frontier, k, sp) ==
    IF k > Len(faces) \/ k > Len(tracks) THEN sp
    ELSE LET ra == repl(sp, frontier, faces[k][1], tracks[k])
             rb == repl(ra, frontier, faces[k][2], tracks[k])
             rc == repl(rb, frontier, faces[k][3], tracks[k])
         IN  splitgroups_from(faces, tracks, frontier, k + 1,
                 [rc EXCEPT !.faces = Append(@, << ra.i, rb.i, rc.i >>)])

\* Mesh.splitgroups() with edges left to None
splitgroups(st) ==
    LET m        == ValOf(st)
        n        == Len(m.points)
        edges    == frontiers(m, << >>).edges
        frontier == [k \in 1..n |->
                        \E e \in 1..Len(edges) : \E j \in 1..2 :
                            PyIdx(edges[e][j], n) = k - 1]
        sp       == splitgroups_from(m.faces, m.tracks, frontier, 1,
                        [points |-> m.points, idents |-> SubSeq([k \in 1..n |-> 0], 1, n),
                         duplicated |-> EmptyDict, faces |-> << >>, i |-> 0])
    IN  IF \E i \in 1..Len(m.faces) : \E j \in 1..3 : ~InRange(m.faces[i][j], n)
        THEN Raise(st, "IndexError")
        ELSE Return(Assign(Assign(st, "points", sp.points), "faces", sp.faces), sp.idents)

\* longest face list of the meshes of SpecMutate
MaxMutFaces == 2
\* longest sequence of mutating calls
MaxMutations == 2
\* the points a merge dict of SpecMutate names are among the first MergePts
MergePts == 3

\* faces on the five points: two that share one point only, and a third that
\* shares an edge with the first
MutFaces == { <<0, 1, 2>>, <<0, 3, 4>>, <<2, 1, 3>> }

\* input meshes, all passing check(): one or two groups in use out of three
MutMeshes ==
    { MeshVal(Pts, fs, TracksOf(Len(fs), step), Grps) :
        step \in 0..1, fs \in SeqsUpTo(MutFaces, MaxMutFaces) }

\* the valid meshes added with +=: one face with a group of its own, and the
\* mesh without faces
OtherMeshes ==
    { MeshVal(Prefix(Pts, 3), << <<0, 2, 1>> >>, << 0 >>, << "h0" >>),
      MeshVal(<< >>, << >>, << >>, << >>) }

MinOf2(a, b) == IF a <= b THEN a ELSE b

InitMutate ==
    /\ \E m \in MutMeshes : heap = NewHeap(m)
    /\ A = FirstMesh /\ B = NoMesh /\ snap = NoSnap
    /\ res = NoRes /\ nops = 0
    /\ IdleProp
    /\ pset = None /\ pmap = None /\ sw = None

\* the call op(par) on A ended in the call state st; A is the only object
\* alive afterwards, so the heap keeps the four lists of A and nothing else
MutateAlone(op, par, st) ==
    /\ nops < MaxMutations
    /\ heap' = NewHeap(ValOf(st))
    /\ res' = ResOn(op, "A", par, st.raised, st.ret, Val(A))
    /\ nops' = nops + 1
    /\ UNCHANGED << A, B, snap, PropVars, pset, pmap, sw >>

\* A += other, other a new Mesh on four lists of its own
Iadd ==
    \E o \in OtherMeshes :
        MutateAlone("iadd", o,
            iadd(Call(heap \o NewHeap(o),  A),
                 Handle(Len(heap) + 1, Len(heap) + 2, Len(heap) + 3, Len(heap) + 4)))

MergepointsAlone ==
    \E merges \in Merges(MinOf2(MergePts, Len(heap[A.points]))) :
        MutateAlone("mergepoints", merges, mergepoints(Call(heap, A), merges))

StrippointsAlone == MutateAlone("strippoints", None, strippoints(Call(heap, A)))

StripgroupsAlone == MutateAlone("stripgroups", None, stripgroups(Call(heap, A)))

Mergegroups == MutateAlone("mergegroups", None, mergegroups(Call(heap, A)))

Splitgroups == MutateAlone("splitgroups", None, splitgroups(Call(heap, A)))

NextMutate ==
    \/ Iadd \/ MergepointsAlone \/ StrippointsAlone \/ StripgroupsAlone
    \/ Mergegroups \/ Splitgroups

SpecMutate == InitMutate /\ [][NextMutate]_vars

\* the point indices of the faces of group t in m
PointsOfGroup(m, t) ==
    { m.faces[i][j] : i \in { x \in 1..Len(m.faces) : m.tracks[x] = t }, j \in 1..3 }

\* a call of splitgroups() on a mesh passing check() has returned
SplitDone ==
    res.op = "splitgroups" /\ res.raised = "none" /\ check(res.before) = "ok"

\* C21: after splitgroups() on a mesh passing check(), no point index is
\* referenced by faces of two different groups, each face keeps the same point
\* coordinates, and the returned list has one entry per point of the resulting
\* buffer, the entry of every point used by a face being the track of that face.
C21_SplitGroups ==
    SplitDone =>
        LET m == Val(A)
            b == res.before
        IN  /\ \A s, t \in Range(m.tracks) :
                s # t => PointsOfGroup(m, s) \cap PointsOfGroup(m, t) = {}
            /\ Len(m.faces) = Len(b.faces)
            /\ \A i \in 1..Len(m.faces) : \A j \in 1..3 :
                m.points[m.faces[i][j] + 1] = b.points[b.faces[i][j] + 1]
            /\ Len(res.ret) = Len(m.points)
            /\ \A i \in 1..Len(m.faces) : \A j \in 1..3 :
                res.ret[m.faces[i][j] + 1] = m.tracks[i]

\* the part of C21 that holds: the faces keep their coordinates and the list
\* returned has one entry per point
C21_CoordinatesKept ==
    SplitDone =>
        LET m == Val(A)
            b == res.before
        IN  /\ Len(m.faces) = Len(b.faces)
            /\ \A i \in 1..Len(m.faces) : \A j \in 1..3 :
                m.points[m.faces[i][j] + 1] = b.points[b.faces[i][j] + 1]
            /\ Len(res.ret) = Len(m.points)

\* the points of the edges between two groups are split: no edge is shared by
\* faces of two groups after the call
C21_FrontierEdgesSplit ==
    SplitDone => frontiers(Val(A), << >>).edges = << >>

\* splitgroups() has run on two faces of two groups that share one point and
\* no edge
C21_PointShared ==
    /\ SplitDone
    /\ res.before.faces = << <<0, 1, 2>>, <<0, 3, 4>> >>
    /\ res.before.tracks = << 0, 1 >>

\* the invariants of a valid mesh named by C28
ValidBuffers(m) ==
    /\ Len(m.tracks) = Len(m.faces)
    /\ \A i \in 1..Len(m.faces) : \A j \in 1..3 :
        0 <= m.faces[i][j] /\ m.faces[i][j] < Len(m.points)
    /\ \A i \in 1..Len(m.tracks) : m.tracks[i] < Len(m.groups)

\* C28: from a Mesh passing check() that shares no buffer, after any sequence
\* of += with a valid mesh, mergepoints with valid targets, strippoints(),
\* stripgroups(), mergegroups() and splitgroups(), len(tracks) == len(faces),
\* every face index is in range and every track is below len(groups); no call
\* of the sequence raises.
C28_ValidityPreserved ==
    res.raised = "none" /\ ValidBuffers(Val(A))

\* a sequence of MaxMutations calls has run, the last of them += on a mesh
\* whose points were split before
C28_AddedAfterSplit ==
    /\ nops = MaxMutations /\ res.op = "iadd"
    /\ Len(res.par.faces) = 1
    /\ Len(res.before.points) > Len(Pts)
    /\ Len(Val(A).faces) = 3

(***************************************************************************)
(* SpecNear: groupnear(point) on small meshes.  The distance of the point  *)
(* to the plane of a face is |dot(point - p0, c)| / |c| with c the cross   *)
(* product of the two edges at p0; it is kept as the exact fraction of its *)
(* square.  A face without area has no normal: normalize gives NaN, and no *)
(* comparison with NaN is true.                                            *)
(***************************************************************************)
\* abs(dot(point - self.points[face[0]], self.facenormal(i))), squared
planedist(points, face, point) ==
    LET p0 == points[face[1] + 1]
        c  == Cross(Sub(points[face[2] + 1], p0), Sub(points[face[3] + 1], p0))
        d  == Dot(Sub(point, p0), c)
    IN  [nan |-> Dot(c, c) = 0, num |-> d * d, den |-> Dot(c, c)]

\* dist < math.inf
BelowInf(dist) == ~dist.nan

\* Mesh.groupnear(point): the for loop from the face i on; best stays math.inf
RECURSIVE groupnear_from(_, _, _, _)
groupnear_from(m, point, i, track) ==
    IF i >= Len(m.faces) THEN track
    ELSE groupnear_from(m, point, i + 1,
            IF BelowInf(planedist(m.points, m.faces[i + 1], point))
            THEN m.tracks[i + 1] ELSE track)

groupnear(m, point) == groupnear_from(m, point, 0, None)

\* longest face list of the meshes of SpecNear
MaxNearFaces == 3

\* the four faces of the tetrahedron on the first four points
TetraFaces == { <<0, 1, 2>>, <<0, 3, 1>>, <<0, 2, 3>>, <<1, 3, 2>> }

\* faces of the tetrahedron in any order, each one a group of its own
NearMeshes ==
    { MeshVal(Prefix(Pts, 4), fs, [i \in 1..Len(fs) |-> i - 1], Grps) :
        fs \in { gs \in SeqsUpTo(TetraFaces, MaxNearFaces) :
                    \A i, j \in 1..Len(gs) : i # j => gs[i] # gs[j] } }

\* the points given to groupnear
NearPoints == { <<0, 0, 1>>, <<1, 0, 0>>, <<0, 3, 1>>, <<1, 1, 1>> }

InitNear ==
    /\ \E m \in NearMeshes : heap = NewHeap(m)
    /\ A = FirstMesh /\ B = NoMesh /\ snap = NoSnap
    /\ res = NoRes /\ nops = 0
    /\ IdleProp
    /\ pset = None /\ pmap = None /\ sw = None

\* A.groupnear(point)
Groupnear ==
    /\ pc = "idle"
    /\ \E point \in NearPoints :
        res' = ResOn("groupnear", "A", point, "none", groupnear(Val(A), point), NoSnap)
    /\ pc' = "done"
    /\ UNCHANGED << heap, A, B, snap, nops, reached, stack, start, acc, isl, calls,
                    pset, pmap, sw >>

NextNear == Groupnear

SpecNear == InitNear /\ [][NextNear]_vars

\* the face i of m is at least as near to the point as the face j
NotFarther(m, point, i, j) ==
    LET di == planedist(m.points, m.faces[i], point)
        dj == planedist(m.points, m.faces[j], point)
    IN  di.num * dj.den <= dj.num * di.den

\* the tracks of the faces of m whose plane is the nearest to the point
NearestTracks(m, point) ==
    { m.tracks[i] : i \in { x \in 1..Len(m.faces) :
                              \A j \in 1..Len(m.faces) : NotFarther(m, point, x, j) } }

\* C25: groupnear(point) returns the track of the face whose plane distance
\* to the point is the smallest among all faces, whatever the order of the
\* faces in the list.
C25_GroupNear ==
    (res.op = "groupnear" /\ Val(A).faces # << >>) =>
        res.ret \in NearestTracks(Val(A), res.par)

\* what groupnear returns: the track of the last face of the list
C25_LastFace ==
    (res.op = "groupnear" /\ Val(A).faces # << >>) =>
        res.ret = Val(A).tracks[Len(Val(A).faces)]

\* groupnear has run on a mesh whose first face is strictly the nearest
C25_FirstNearest ==
    /\ res.op = "groupnear" /\ Len(Val(A).faces) = 2
    /\ NearestTracks(Val(A), res.par) = { 0 }

\* the faces f and g have the same points in the same cyclic order
SameWinding(f, g) ==
    g \in { f, << f[2], f[3], f[1] >>, << f[3], f[1], f[2] >> }

\* orient() with the default seed has returned for the mesh m
OrientedByDefault(m) ==
    OrientReturned /\ res.par = NoDir /\ res.before = m

\* C22: orient() with the default seed returns the all-outward winding of the
\* unit cube in both scenarios: the outward cube comes back with the same
\* faces, and the cube with its 12 windings reversed has its 12 faces flipped.
C22_CubeOutward ==
    /\ OrientedByDefault(Cube) => Val(B).faces = Cube.faces
    /\ OrientedByDefault(InvertedCube) =>
            /\ Val(B).faces = [i \in 1..12 |-> Mirrored(InvertedCube.faces[i])]
            /\ \A i \in 1..12 : SameWinding(Val(B).faces[i], Cube.faces[i])

\* orient() with the default seed has flipped the 12 faces of the inverted cube
C22_InvertedCubeFlipped ==
    /\ OrientedByDefault(InvertedCube)
    /\ \A i \in 1..12 : Val(B).faces[i] # InvertedCube.faces[i]

(***************************************************************************)
(* Islands as connected components.                                        *)
(***************************************************************************)
\* the position in calls of the call atface(i)
VisitAt(i) == CHOOSE k \in 1..Len(calls) : calls[k] = << "atface", i >>

\* the index of the island the face i was collected in: the number of calls
\* of atisland before atface(i)
IslandOf(i) ==
    Cardinality({ k \in 1..VisitAt(i) : calls[k] = << "atisland" >> })

\* the faces i and j of the list share an unoriented edge
ShareEdge(faces, i, j) == FaceKeys(faces[i + 1]) \cap FaceKeys(faces[j + 1]) # {}

\* the faces i and j share an edge that they traverse in opposite directions
ShareOpposite(faces, i, j) ==
    \E a \in 1..3 : \E b \in 1..3 :
        FaceEdges(faces[i + 1])[a]
            = << FaceEdges(faces[j + 1])[b][2], FaceEdges(faces[j + 1])[b][1] >>

\* the face indices linked to those of S by a chain of faces in which
\* consecutive faces share an edge (traversed in opposite directions when
\* opposite is TRUE)
RECURSIVE Chained(_, _, _)
Chained(faces, S, opposite) ==
    LET T == S \cup { j \in 0..(Len(faces) - 1) :
                        \E i \in S : IF opposite THEN ShareOpposite(faces, i, j)
                                                 ELSE ShareEdge(faces, i, j) }
    IN  IF T = S THEN S ELSE Chained(faces, T, opposite)

\* C23: each mesh returned by islands(m) is a maximal face-connected
\* component: two faces end in the same island if and only if they are linked
\* by a chain of faces in which consecutive faces share an edge; two disjoint
\* tetrahedra give exactly two islands of 4 faces each.
C23_IslandsAreComponents ==
    pc = "done" =>
        LET faces == heap[A.faces]
        IN  /\ \A i, j \in 0..(Len(faces) - 1) :
                (IslandOf(i) = IslandOf(j)) <=> (j \in Chained(faces, {i}, FALSE))
            /\ Val(A) = TwoTetra =>
                /\ Len(res.ret) = 2
                /\ Len(res.ret[1].faces) = 4 /\ Len(res.ret[2].faces) = 4

\* what islands() returns when no oriented edge is used by two faces: the
\* components of the faces linked across an edge traversed in opposite
\* directions; and the two tetrahedra give two islands of 4 faces
C23_OppositeComponents ==
    pc = "done" =>
        LET faces == heap[A.faces]
        IN  /\ issurface(faces)
                => \A i, j \in 0..(Len(faces) - 1) :
                     (IslandOf(i) = IslandOf(j))
                        <=> (j \in Chained(faces, {i}, TRUE))
            /\ Val(A) = TwoTetra =>
                /\ Len(res.ret) = 2
                /\ Len(res.ret[1].faces) = 4 /\ Len(res.ret[2].faces) = 4

\* islands() returned two islands for two faces that share an edge
C23_EdgeSharedApart ==
    /\ pc = "done" /\ heap[A.faces] = << <<0, 1, 2>>, <<0, 1, 3>> >>
    /\ Len(res.ret) = 2

(***************************************************************************)
(* The order of the calls made by propagate.                               *)
(***************************************************************************)
\* the face indices given to atface by the first k calls
VisitedBy(k) == { calls[x][2] : x \in { y \in 1..k : calls[y][1] = "atface" } }

\* the face indices given to atface since the last atisland before the call k
DrainBefore(k) ==
    { calls[x][2] : x \in { y \in 1..(k - 1) :
                              /\ calls[y][1] = "atface"
                              /\ \A z \in y..(k - 1) : calls[z][1] = "atface" } }

\* the calls made so far are in the order of C26
CallsInOrder ==
    LET faces == heap[A.faces]
        conn  == connef(faces)
        n     == Len(faces)
    IN  \A k \in 1..Len(calls) :
            IF calls[k][1] = "atface"
            THEN \* once per face; a drain starts at the lowest face not reached
                 /\ calls[k][2] \notin VisitedBy(k - 1)
                 /\ (k = 1 \/ calls[k - 1][1] = "atisland")
                        => \A j \in 0..(calls[k][2] - 1) : j \in VisitedBy(k - 1)
            ELSE \* atisland: once per drain, after every face the drain reaches
                 /\ k > 1 /\ calls[k - 1][1] = "atface"
                 /\ \A i \in DrainBefore(k) :
                        \A e \in Range(PropNeighbors(faces[i + 1], conn,
                                                     [x \in 1..n |-> FALSE])) :
                            e \in VisitedBy(k)

\* C26: in Mesh.propagate, for every mesh, atface(i) is invoked exactly once
\* for each face index; each stack drain starts from the lowest-indexed face
\* not yet reached; atisland is invoked exactly once per island, after atface
\* of all the faces of the island and before atface of any face of the next;
\* and the procedure ends with all faces reached.
C26_PropagateOrder ==
    /\ CallsInOrder
    /\ pc # "raised"
    /\ pc = "done" =>
        /\ VisitedBy(Len(calls)) = 0..(Len(heap[A.faces]) - 1)
        /\ \A i \in 1..Len(reached) : reached[i]
        /\ Len(calls) > 0 => calls[Len(calls)] = << "atisland" >>

\* C26 on the meshes that have a face
C26_PropagateOrderNonEmpty ==
    Len(heap[A.faces]) > 0 =>
        /\ CallsInOrder
        /\ pc # "raised"
        /\ pc = "done" =>
            /\ VisitedBy(Len(calls)) = 0..(Len(heap[A.faces]) - 1)
            /\ \A i \in 1..Len(reached) : reached[i]
            /\ calls[Len(calls)] = << "atisland" >>

\* propagate raised on the mesh without faces
C26_RaisedWithoutFaces ==
    pc = "raised" /\ heap[A.faces] = << >> /\ calls = << >>

\* the steps of propagate are taken as long as one is possible
SpecIslandsFair == SpecIslands /\ WF_vars(NextIslands)

\* the call of propagate ends, by a return or by an exception
C26_PropagateEnds == (pc = "find") ~> (pc \in { "done", "raised" })

(***************************************************************************)
(* The seed faces of orient().                                             *)
(***************************************************************************)
\* what the lambdas and the loops of orient(dir) read
OrientContext(m, dir) ==
    [points  |-> m.points,
     dir     |-> dir,
     center  |-> IF dir = NoDir THEN barycenter(m)
                 ELSE [num |-> <<0, 0, 0>>, den |-> 1],
     normals |-> facenormals(m),
     conn    |-> AssoPairs(m.faces, 0)]

\* the candidates that the `while True:` loop of orient() pushes on the
\* stack, one per island, in order
RECURSIVE orient_seeds(_, _, _)
orient_seeds(c, faces, reach) ==
    LET s == seed_from(c, reach, [faces |-> faces, best |-> NegInf, candidate |-> -1], 0)
    IN  IF s.candidate = -1 THEN << >>
        ELSE LET d == orient_drain(c, [faces |-> s.faces, reached |-> reach,
                                       stack |-> << s.candidate >>])
             IN  << s.candidate >> \o orient_seeds(c, d.faces, d.reached)

\* the seeds of the call orient(dir) on m
SeedsOf(m, dir) ==
    orient_seeds(OrientContext(m, dir), m.faces, [i \in 1..Len(m.faces) |-> FALSE])

\* the face i of the returned mesh has a normal that does not point against
\* the direction given to orient
Outward(i) ==
    Dot(facecross(Val(B).points, Val(B).faces[i + 1]), res.par) >= 0

\* C27: in orient(), for a mesh with several islands, the seed search of one
\* island changes the winding of the finally selected seed face only: after
\* orient the seed face of every island has a normal, for its returned
\* winding, whose dot product with the direction is non-negative; a face of
\* another island examined as an intermediate candidate is not left flipped
\* or flipped back because of a normal computed before its flip.
C27_SeedsOutward ==
    (OrientReturned /\ res.par # NoDir) =>
        \A i \in Range(SeedsOf(res.before, res.par)) : Outward(i)

\* the seed of the first island is oriented along the direction
C27_FirstSeedOutward ==
    (OrientReturned /\ res.par # NoDir /\ Len(res.before.faces) > 0) =>
        Outward(SeedsOf(res.before, res.par)[1])

\* orient((0,0,1)) has returned for the two squares of which the first face,
\* of the lower square, was reversed: the face comes back as given
C27_LowerSquareReversed ==
    /\ OrientReturned /\ res.par = <<0, 0, 1>>
    /\ res.before = [TwoSquares EXCEPT !.faces = FlippedAt(TwoSquares.faces, {1})]
    /\ SeedsOf(res.before, res.par) = << 2, 0 >>
    /\ Val(B).faces[1] = res.before.faces[1]

(***************************************************************************)
(* SpecCut: outlines_unoriented() on a mesh and on the same mesh with some *)
(* windings reversed, and the outlines of two groups against frontiers().  *)
(***************************************************************************)
\* a variant of the loop of outlines_unoriented that never removes an edge
RECURSIVE unoriented_added(_, _, _)
unoriented_added(es, k, edges) ==
    IF k > Len(es) THEN edges
    ELSE unoriented_added(es, k + 1, edges \cup { edgekey(es[k][1], es[k][2]) })

\* outlines_unoriented(): for each edge of each face, in order, e = edgekey(*edge)
\* then `if e in edges: edges.remove(e)` `else: edges.add(e)`
RECURSIVE unoriented_from(_, _, _)
unoriented_from(es, k, edges) ==
    IF k > Len(es) THEN edges
    ELSE LET e == edgekey(es[k][1], es[k][2])
         IN  IF e \in edges THEN unoriented_from(es, k + 1, edges \ { e })
             ELSE unoriented_from(es, k + 1, edges \cup { e })

outlines_unoriented(faces) == unoriented_from(edges_oriented(faces), 1, {})

\* longest face list of the meshes of SpecCut
MaxCutFaces == 3

\* faces on four points: the second and the third share the edge {0,1} with
\* the first, one traversing it in the opposite direction and one in the same
CutFaces == { <<0, 1, 2>>, <<1, 0, 3>>, <<0, 1, 3>>, <<2, 1, 3>> }

\* input meshes: lists of these faces, each of any of the three groups (the
\* methods compare group indices for equality only, and every pair of groups
\* is asked for, so the first face is of the group 0 without loss)
CutMeshes ==
    { MeshVal(Prefix(Pts, 4), c[1], c[2], Grps) :
        c \in UNION { { fs } \X { ts \in [1..Len(fs) -> 0..2] : Len(fs) > 0 => ts[1] = 0 } :
                        fs \in SeqsUpTo(CutFaces, MaxCutFaces) } }

InitCut ==
    /\ \E m \in CutMeshes : heap = NewHeap(m)
    /\ A = FirstMesh /\ B = NoMesh /\ snap = NoSnap
    /\ res = NoRes /\ nops = 0
    /\ IdleProp
    /\ pset = None /\ pmap = None /\ sw = None

\* A.outlines_unoriented(), and the same call on a Mesh that has the faces of
\* A with those of the indices in S reversed
OutlinesUnoriented ==
    /\ pc = "idle"
    /\ \E S \in SUBSET (1..Len(heap[A.faces])) :
        res' = ResOn("outlines_unoriented", "A", S, "none",
                     << outlines_unoriented(heap[A.faces]),
                        outlines_unoriented(FlippedAt(heap[A.faces], S)) >>,
                     NoSnap)
    /\ pc' = "done"
    /\ UNCHANGED << heap, A, B, snap, nops, reached, stack, start, acc, isl, calls,
                    pset, pmap, sw >>

\* A.group(g).outlines_unoriented() & A.group(h).outlines_unoriented(), and
\* A.frontiers(g, h)
GroupCut ==
    /\ pc = "idle"
    /\ \E g \in 0..2 : \E h \in (0..2) \ { g } :
        LET m == Val(A)
        IN  res' = ResOn("cut", "A", << g, h >>, "none",
                     << outlines_unoriented(group_from(m.faces, m.tracks, 1, g).faces)
                        \cap outlines_unoriented(group_from(m.faces, m.tracks, 1, h).faces),
                        frontiers(m, << ArgInt(g), ArgInt(h) >>).edges >>,
                     NoSnap)
    /\ pc' = "done"
    /\ UNCHANGED << heap, A, B, snap, nops, reached, stack, start, acc, isl, calls,
                    pset, pmap, sw >>

NextCut == OutlinesUnoriented \/ GroupCut

SpecCut == InitCut /\ [][NextCut]_vars

\* the number of sides of the faces that join the points of the key e
Sides(faces, e) ==
    Cardinality({ x \in (1..Len(faces)) \X (1..3) :
                    edgekey(FaceEdges(faces[x[1]])[x[2]][1],
                            FaceEdges(faces[x[1]])[x[2]][2]) = e })

\* C24: outlines_unoriented() is robust to face orientation: reversing the
\* winding of any subset of the faces leaves its result unchanged, and the
\* result is exactly the set of unordered edges used by an odd number of face
\* sides.
C24_UnorientedOutline ==
    res.op = "outlines_unoriented" =>
        /\ res.ret[2] = res.ret[1]
        /\ res.ret[1] = { e \in AllKeys(Val(A)) : Sides(Val(A).faces, e) % 2 = 1 }

\* the call has run on two faces that traverse their shared edge in the same
\* direction, and on the mesh with the second face reversed
C24_Witness ==
    /\ res.op = "outlines_unoriented" /\ res.par = { 2 }
    /\ Val(A).faces = << <<0, 1, 2>>, <<0, 1, 3>>, <<2, 1, 3>> >>
    /\ res.ret[1] = { <<0, 2>>, <<0, 3>>, <<2, 3>> }

\* the unoriented edges that a face of track g and a face of track h share
SharedBy(m, g, h) ==
    { e \in AllKeys(m) :
        \E i, j \in Adjacent(m, e) : m.tracks[i] = g /\ m.tracks[j] = h }

\* C30: for a Mesh passing issurface() and two distinct groups g and h, the
\* intersection of group(g).outlines_unoriented() and
\* group(h).outlines_unoriented() is exactly the set of unoriented edges shared
\* by a face of track g and a face of track h, and equals the edge set of
\* frontiers(g, h).
C30_CutIsFrontier ==
    (res.op = "cut" /\ issurface(Val(A).faces)) =>
        /\ res.ret[1] = SharedBy(Val(A), res.par[1], res.par[2])
        /\ res.ret[1] = Range(res.ret[2])

\* the call has run on two faces of the groups g and h that share an edge
C30_Witness ==
    /\ res.op = "cut" /\ issurface(Val(A).faces)
    /\ Val(A).faces = << <<0, 1, 2>>, <<1, 0, 3>>, <<2, 1, 3>> >>
    /\ Val(A).tracks = << 0, 2, 1 >> /\ res.par = << 2, 0 >>
    /\ res.ret[1] = { <<0, 1>> }

(***************************************************************************)
(* SpecSuites: suites(lines, oriented, cut, loop), one action per pass of  *)
(* its loops.  sw holds the arguments and the locals of the call.          *)
(***************************************************************************)
\* an assembling that would drop the edge it takes
assembled_dropped(suite, edge, oriented) ==
    IF \/ edge[2] = suite[1] \/ edge[1] = suite[Len(suite)]
       \/ ~oriented /\ (edge[1] = suite[1] \/ edge[2] = suite[Len(suite)])
    THEN suite ELSE << >>

\* the first branch of the for loop over lines that an edge takes: the suite
\* with the edge assembled, or << >> when the edge is passed (continue)
assembled(suite, edge, oriented) ==
    IF edge[2] = suite[1] THEN edge \o Tail(suite)
    ELSE IF edge[1] = suite[Len(suite)] THEN SubSeq(suite, 1, Len(suite) - 1) \o edge
    ELSE IF ~oriented /\ edge[1] = suite[1] THEN << edge[2], edge[1] >> \o Tail(suite)
    ELSE IF ~oriented /\ edge[2] = suite[Len(suite)]
         THEN SubSeq(suite, 1, Len(suite) - 1) \o << edge[2], edge[1] >>
    ELSE << >>

\* `for i,edge in enumerate(lines)`: the first index whose edge is assembled,
\* or -1
firstfit(suite, lines, oriented) ==
    LET fits == { i \in 0..(Len(lines) - 1) :
                    assembled(suite, lines[i + 1], oriented) # << >> }
    IN  IF fits = {} THEN -1 ELSE CHOOSE i \in fits : \A j \in fits : i <= j

\* reach[p]: the number of places of the suites that hold p
RECURSIVE reachcount(_, _)
reachcount(suites, p) ==
    IF Len(suites) = 0 THEN 0
    ELSE Cardinality({ i \in 1..Len(Head(suites)) : Head(suites)[i] = p })
            + reachcount(Tail(suites), p)

\* `for i in range(1,len(suite)-1): if reach[suite[i]] > 1`: the first such i,
\* or -1
firstcut(suite, reach) ==
    LET cuts == { i \in 1..(Len(suite) - 2) : reach[suite[i + 1]] > 1 }
    IN  IF cuts = {} THEN -1 ELSE CHOOSE i \in cuts : \A j \in cuts : i <= j

\* longest list of edges given to suites
MaxLines == 3

\* the edges given to suites: a triangle, an edge ending on it and the
\* reverse of one of its edges
SuiteEdges == { <<0, 1>>, <<1, 2>>, <<2, 0>>, <<3, 1>>, <<1, 0>> }

SuiteLocals(lines, oriented, cut, loop) ==
    [input |-> lines, oriented |-> oriented, cut |-> cut, loop |-> loop,
     lines |-> lines, suites |-> << >>, suite |-> << >>, reach |-> << >>, k |-> 0]

InitSuites ==
    /\ heap = << >> /\ A = NoMesh /\ B = NoMesh /\ snap = NoSnap
    /\ res = NoRes /\ nops = 0
    /\ IdleProp
    /\ pset = None /\ pmap = None
    /\ \E lines \in SeqsUpTo(SuiteEdges, MaxLines) :
       \E oriented \in BOOLEAN : \E cut \in BOOLEAN : \E loop \in BOOLEAN :
            sw = SuiteLocals(lines, oriented, cut, loop)

SuitesUnchanged ==
    UNCHANGED << heap, A, B, snap, nops, reached, stack, start, acc, isl, calls,
                 pset, pmap >>

\* the call: lines = list(lines), suites = []
SuitesCall ==
    /\ pc = "idle"
    /\ pc' = "pop"
    /\ UNCHANGED << sw, res >>
    /\ SuitesUnchanged

\* `while lines:` a new suite starts from the last line; when no line is
\* left the cut step starts, or the call returns
SuitesPop ==
    /\ pc = "pop"
    /\ IF Len(sw.lines) > 0
       THEN /\ sw' = [sw EXCEPT !.suite = sw.lines[Len(sw.lines)],
                                !.lines = SubSeq(@, 1, Len(@) - 1)]
            /\ pc' = "grow" /\ UNCHANGED res
       ELSE IF sw.cut
       THEN /\ sw' = [sw EXCEPT !.reach = [p \in UNION { Range(sw.suites[i]) :
                                                            i \in 1..Len(sw.suites) }
                                             |-> reachcount(sw.suites, p)],
                                !.k = 0]
            /\ pc' = "cut" /\ UNCHANGED res
       ELSE /\ pc' = "done" /\ res' = Res("suites", None, "none", sw.suites)
            /\ UNCHANGED sw
    /\ SuitesUnchanged

\* one pass of `while found:`: the first line that fits is assembled and
\* popped; the suite is closed when no line fits, or when loop is set and the
\* suite ends where it starts
SuitesGrow ==
    /\ pc = "grow"
    /\ LET i     == firstfit(sw.suite, sw.lines, sw.oriented)
           suite == IF i = -1 THEN sw.suite
                    ELSE assembled(sw.suite, sw.lines[i + 1], sw.oriented)
           lines == IF i = -1 THEN sw.lines ELSE PopAt(sw.lines, i)
       IN  IF i = -1 \/ (sw.loop /\ suite[Len(suite)] = suite[1])
           THEN /\ sw' = [sw EXCEPT !.suites = Append(@, suite), !.suite = << >>,
                                    !.lines = lines]
                /\ pc' = "pop"
           ELSE /\ sw' = [sw EXCEPT !.suite = suite, !.lines = lines]
                /\ pc' = "grow"
    /\ UNCHANGED res
    /\ SuitesUnchanged

\* one pass of the second `for suite in suites:` of the cut step, on the
\* suite of index k; the list grows while it is iterated
SuitesCut ==
    /\ pc = "cut"
    /\ IF sw.k >= Len(sw.suites)
       THEN /\ pc' = "done" /\ res' = Res("suites", None, "none", sw.suites)
            /\ UNCHANGED sw
       ELSE LET suite == sw.suites[sw.k + 1]
                i     == firstcut(suite, sw.reach)
            IN  /\ sw' = IF i = -1 THEN [sw EXCEPT !.k = @ + 1]
                         ELSE [sw EXCEPT
                                 !.suites = Append(SetAt(@, sw.k, SubSeq(suite, 1, i + 1)),
                                                   SubSeq(suite, i + 1, Len(suite))),
                                 !.k = @ + 1]
                /\ pc' = "cut" /\ UNCHANGED res
    /\ SuitesUnchanged

NextSuites == SuitesCall \/ SuitesPop \/ SuitesGrow \/ SuitesCut

SpecSuites == InitSuites /\ [][NextSuites]_vars

\* the passes of the loops are taken as long as one is possible
SpecSuitesFair == SpecSuites /\ WF_vars(NextSuites)

\* the consecutive pairs of the suites, as a list
RECURSIVE PairsOf(_)
PairsOf(suites) ==
    IF Len(suites) = 0 THEN << >>
    ELSE [i \in 1..(Len(Head(suites)) - 1) |-> << Head(suites)[i], Head(suites)[i + 1] >>]
            \o PairsOf(Tail(suites))

\* the number of the edges of the list that are e, up to reversal when
\* oriented is FALSE
Times(edges, e, oriented) ==
    Cardinality({ i \in 1..Len(edges) :
                    \/ edges[i] = e
                    \/ ~oriented /\ edges[i] = << e[2], e[1] >> })

\* C29: suites(lines) loses or duplicates no edge: the consecutive pairs of
\* all returned suites, taken together, are exactly the input edges, each
\* once (up to reversal when oriented=False), also after the cut step at the
\* points reached by several suites.
C29_SuitesKeepEdges ==
    pc = "done" =>
        LET pairs == PairsOf(res.ret)
        IN  /\ \A i \in 1..Len(res.ret) : Len(res.ret[i]) >= 2
            /\ Len(pairs) = Len(sw.input)
            /\ \A e \in Range(pairs) \cup Range(sw.input) :
                Times(pairs, e, sw.oriented) = Times(sw.input, e, sw.oriented)

\* every call of suites returns
C29_SuitesEnds == (pc = "idle") ~> (pc = "done")

\* the cut step has split the suite of the triangle at the point where the
\* fourth edge ends
C29_CutAtCrossing ==
    /\ pc = "done" /\ sw.cut /\ sw.oriented
    /\ sw.input = << <<3, 1>>, <<0, 1>>, <<1, 2>> >>
    /\ Len(res.ret) = 3

============================================================================
